---------------------------- MODULE Spec2Model ----------------------------
(***************************************************************************)
(* Model of the Hubbard fermion matrix / action core of isle.              *)
(*                                                                         *)
(* Arithmetic is exact.  A complex number is a Gaussian rational           *)
(* <<re, im, den>> = (re + i*im)/den with den > 0 and gcd(re, im, den) = 1.*)
(* A field value phi[x,t] is a record [rot, a, b] standing for             *)
(* (rot ? i : 1) * (a*pi/2 + i*b*ln 2), so that exp(+-i*phi) is again a    *)
(* Gaussian rational.  An angle (the imaginary part of a logarithm) is a   *)
(* record [n, x, y] standing for n*pi/2 + arg(x + i*y) with x > 0, y >= 0, *)
(* which makes sums, negations, fmod and comparisons with +-pi exact.      *)
(* The real part of a logarithm, ln r for a rational r >= 0, is kept as the*)
(* pair <<num, den>> of r*r (<<0,1>> is -inf, <<1,0>> is +inf).            *)
(***************************************************************************)
EXTENDS Integers, Sequences, FiniteSets, TLC

VARIABLES
    _kappa,         \* HubbardFermiMatrix::_kappa, an Nx x Nx real matrix
    _mu,            \* HubbardFermiMatrix::_mu
    _sigmaKappa,    \* HubbardFermiMatrix::_sigmaKappa
    _kinvp,         \* cached inverse of K(PARTICLE); <<>> is the empty 0x0 matrix
    _kinvh,         \* cached inverse of K(HOLE)
    _logdetKinvp,   \* cached logdet of _kinvp; real part NaN when not computed
    _logdetKinvh,   \* cached logdet of _kinvh
    hfa,            \* the HubbardFermiAction that owns the matrix above as its _hfm
    heap,           \* the Python objects of the action algebra, by address
    threads,        \* the threads inside Kinv and logdetKinv of the matrix above
    ret             \* what the last call did and returned

hfmVars == <<_kappa, _mu, _sigmaKappa, _kinvp, _kinvh, _logdetKinvp, _logdetKinvh>>
vars == <<_kappa, _mu, _sigmaKappa, _kinvp, _kinvh, _logdetKinvp, _logdetKinvh, hfa, heap,
          threads, ret>>

\* ------------------------------------------------------------------------
\* Exact arithmetic
\* ------------------------------------------------------------------------

\* Op applied to the value of v: v is evaluated once, before Op
Let(v, Op(_)) == CHOOSE r \in {Op(x) : x \in {v}} : TRUE

Abs(n) == IF n < 0 THEN -n ELSE n

RECURSIVE Gcd(_, _)
Gcd(a, b) == IF b = 0 THEN a ELSE Gcd(b, a % b)

\* (re + i*im)/den in lowest terms with positive denominator
CNorm(re, im, den) ==
    LET reduce(g, s) == <<(s * re) \div g, (s * im) \div g, (s * den) \div g>>
    IN  reduce(Gcd(Gcd(Abs(re), Abs(im)), Abs(den)), IF den < 0 THEN -1 ELSE 1)

CZero == <<0, 0, 1>>
COne  == <<1, 0, 1>>
CI    == <<0, 1, 1>>
CReal(n) == <<n, 0, 1>>

CAdd(z, w) ==
    LET sum(zf, wf) == CNorm(z[1] * zf + w[1] * wf, z[2] * zf + w[2] * wf, z[3] * zf)
        over(g) == sum(w[3] \div g, z[3] \div g)
    IN  over(Gcd(z[3], w[3]))
CNeg(z)    == <<-z[1], -z[2], z[3]>>
CSub(z, w) == CAdd(z, CNeg(w))
CMul(z, w) ==
    LET prod(a, b, d, e, f, h) == CNorm(a * e - b * f, a * f + b * e, d * h)
        cross(g1, g2) == prod(z[1] \div g1, z[2] \div g1, z[3] \div g2,
                              w[1] \div g2, w[2] \div g2, w[3] \div g1)
    IN  cross(Gcd(Gcd(Abs(z[1]), Abs(z[2])), w[3]), Gcd(Gcd(Abs(w[1]), Abs(w[2])), z[3]))
CIsZero(z) == z[1] = 0 /\ z[2] = 0
CInv(z)    ==
    LET quot(a, b, d, g) == CNorm(a * d, -(b * d), g * (a * a + b * b))
        split(g, dg) == quot(z[1] \div g, z[2] \div g, z[3] \div dg, g \div dg)
        over(g) == split(g, Gcd(z[3], g))
    IN  over(Gcd(Abs(z[1]), Abs(z[2])))

\* ------------------------------------------------------------------------
\* Dense square matrices: a sequence of rows
\* ------------------------------------------------------------------------

Dim(A) == Len(A)

RECURSIVE DotFrom(_, _, _, _, _)
DotFrom(A, B, i, j, k) ==
    IF k > Dim(A) THEN CZero
    ELSE CAdd(CMul(A[i][k], B[k][j]), DotFrom(A, B, i, j, k + 1))

\* the vector (e(1), ..., e(n)) and the n x n matrix of the entries e(i, j),
\* written out entry by entry for the sizes in use, n <= 2
Vec(n, e(_)) == IF n = 1 THEN <<e(1)>> ELSE <<e(1), e(2)>>
Mat(n, e(_, _)) ==
    IF n = 1 THEN << <<e(1, 1)>> >>
    ELSE << <<e(1, 1), e(1, 2)>>, <<e(2, 1), e(2, 2)>> >>

MatMul(A, B)  == Mat(Dim(A), LAMBDA i, j : DotFrom(A, B, i, j, 1))
MatAdd(A, B)  == Mat(Dim(A), LAMBDA i, j : CAdd(A[i][j], B[i][j]))
MatSub(A, B)  == Mat(Dim(A), LAMBDA i, j : CSub(A[i][j], B[i][j]))
MatNeg(A)     == Mat(Dim(A), LAMBDA i, j : CNeg(A[i][j]))
MatScale(c, A) == Mat(Dim(A), LAMBDA i, j : CMul(c, A[i][j]))
Transpose(A)  == Mat(Dim(A), LAMBDA i, j : A[j][i])
IdMatrix(n)   == Mat(n, LAMBDA i, j : IF i = j THEN COne ELSE CZero)
ZeroMatrix(n) == Mat(n, LAMBDA i, j : CZero)

\* determinant of a 1x1 or 2x2 matrix
Det(A) ==
    IF Dim(A) = 1 THEN A[1][1]
    ELSE CSub(CMul(A[1][1], A[2][2]), CMul(A[1][2], A[2][1]))

IsSingular(A) == CIsZero(Det(A))

\* the mathematical inverse of a non-singular 1x1 or 2x2 matrix
Inverse(A) ==
    LET adj(d) == IF Dim(A) = 1 THEN <<<<d>>>>
                  ELSE << <<CMul(d, A[2][2]), CNeg(CMul(d, A[1][2]))>>,
                          <<CNeg(CMul(d, A[2][1])), CMul(d, A[1][1])>> >>
    IN  Let(CInv(Det(A)), adj)


\* ------------------------------------------------------------------------
\* Angles and logarithms
\* ------------------------------------------------------------------------

\* the angle n*pi/2 + arg(x + i*y), brought to 0 <= arg(x + i*y) < pi/2
AngNorm(n, x, y) ==
    LET quadrant(a, b) ==
            IF a > 0 /\ b >= 0 THEN [n |-> n, x |-> a, y |-> b]
            ELSE IF a <= 0 /\ b > 0 THEN [n |-> n + 1, x |-> b, y |-> -a]
            ELSE IF a < 0 /\ b <= 0 THEN [n |-> n + 2, x |-> -a, y |-> -b]
            ELSE [n |-> n + 3, x |-> -b, y |-> a]
        over(g) == quadrant(x \div g, y \div g)
    IN  over(Gcd(Abs(x), Abs(y)))

AngZero == [n |-> 0, x |-> 1, y |-> 0]
AngPi   == [n |-> 2, x |-> 1, y |-> 0]

AngAdd(s, t) == AngNorm(s.n + t.n, s.x * t.x - s.y * t.y, s.x * t.y + s.y * t.x)
AngNeg(s)    == IF s.y = 0 THEN [n |-> -s.n, x |-> s.x, y |-> 0]
                ELSE [n |-> -s.n - 1, x |-> s.y, y |-> s.x]
AngSub(s, t) == AngAdd(s, AngNeg(t))

RECURSIVE AngTimes(_, _)
AngTimes(k, s) == IF k = 0 THEN AngZero ELSE AngAdd(s, AngTimes(k - 1, s))

AngIsNeg(s) == s.n < 0
\* s <= t and s < t
AngIsPos(d) == d.n > 0 \/ (d.n = 0 /\ d.y > 0)
AngLe(s, t) == ~AngIsNeg(AngSub(t, s))
AngLt(s, t) == AngIsPos(AngSub(t, s))

\* std::fmod(s, 2*pi): the remainder has the sign of the dividend
AngFmod2Pi(s) ==
    LET rem(m) == [n |-> m.n % 4, x |-> m.x, y |-> m.y]
    IN  IF ~AngIsNeg(s) THEN rem(s) ELSE AngNeg(rem(AngNeg(s)))

\* s - t is an integer multiple of 2*pi
AngCongruent(s, t) == LET full(d) == d.y = 0 /\ d.n % 4 = 0 IN full(AngSub(s, t))

\* -pi < s <= pi
InFirstBranch(s) == AngLt(AngNeg(AngPi), s) /\ AngLe(s, AngPi)

\* A positive extended rational <<num, den>>: <<0,1>> is 0, <<1,0>> is +infinity
RNorm(p, q) ==
    LET reduce(g) == IF g = 0 THEN <<0, 0>> ELSE <<Abs(p) \div g, Abs(q) \div g>>
    IN  reduce(Gcd(Abs(p), Abs(q)))
NonZero(g)  == IF g = 0 THEN 1 ELSE g
RMul(r, s)  ==
    LET cross(g1, g2) == RNorm((r[1] \div g1) * (s[1] \div g2), (r[2] \div g2) * (s[2] \div g1))
    IN  cross(NonZero(Gcd(r[1], s[2])), NonZero(Gcd(s[1], r[2])))
RInv(r)     == <<r[2], r[1]>>
ROne        == <<1, 1>>

RECURSIVE RPow(_, _)
RPow(r, k) == IF k = 0 THEN ROne ELSE RMul(r, RPow(r, k - 1))

\* A logarithm: re = <<p, q>> stands for the real part (1/2)*ln(p/q), im is an angle
LogZero       == [re |-> ROne, im |-> AngZero]
LogAdd(u, v)  == [re |-> RMul(u.re, v.re), im |-> AngAdd(u.im, v.im)]
LogNeg(u)     == [re |-> RInv(u.re), im |-> AngNeg(u.im)]
LogConj(u)    == [re |-> u.re, im |-> AngNeg(u.im)]
LogTimes(k, u) == [re |-> RPow(u.re, k), im |-> AngTimes(k, u.im)]
LogIPi        == [re |-> ROne, im |-> AngPi]

\* std::log of a complex number: ln|z| + i*Arg(z) with Arg in (-pi, pi];
\* std::log(0) is -infinity + 0i
CLog(z) ==
    LET arg(a) == IF a.n = 3 THEN [a EXCEPT !.n = -1]
                  ELSE IF a.n = 2 /\ a.y > 0 THEN [a EXCEPT !.n = -2]
                  ELSE a
    IN  [re |-> RNorm(z[1] * z[1] + z[2] * z[2], z[3] * z[3]),
         im |-> IF z[1] = 0 /\ z[2] = 0 THEN AngZero ELSE arg(AngNorm(0, z[1], z[2]))]


\* the quiet NaN of std::numeric_limits<double>, as the real part of a logarithm
NaN == <<0, 0>>
IsNaN(r) == r = NaN

\* Project a complex number to the first branch of the logarithm
toFirstLogBranch(x) ==
    [re |-> x.re, im |-> AngSub(AngFmod2Pi(AngAdd(x.im, AngPi)), AngPi)]

\* |re| + |im| of z is larger than that of w (the pivot search of LAPACK)
Cabs1Gt(z, w) == (Abs(z[1]) + Abs(z[2])) * w[3] > (Abs(w[1]) + Abs(w[2])) * z[3]

\* blaze::getrf on a row-major matrix: LAPACK factorises the column-major view,
\* i.e. the transpose, with partial pivoting; pivot indices are 1-based.
Getrf(A) ==
    LET eliminate(R, m, p) ==
            [lu |-> Transpose(<< R[1], <<m, CSub(R[2][2], CMul(m, R[1][2]))>> >>),
             ipiv |-> <<p, 2>>]
        scale(R, p) ==
            eliminate(R, IF CIsZero(R[1][1]) THEN R[2][1] ELSE CMul(R[2][1], CInv(R[1][1])), p)
        swap(B, p) == scale(IF p = 2 THEN <<B[2], B[1]>> ELSE B, p)
        pivot(B) == swap(B, IF Cabs1Gt(B[2][1], B[1][1]) THEN 2 ELSE 1)
    IN  IF Dim(A) = 1 THEN [lu |-> A, ipiv |-> <<1>>] ELSE pivot(Transpose(A))

RECURSIVE SumLogDiag(_, _)
SumLogDiag(A, i) ==
    IF i > Dim(A) THEN LogZero ELSE LogAdd(CLog(A[i][i]), SumLogDiag(A, i + 1))

\* the rows i (counted from 0) whose pivot index is not i
PivotMismatch(ipiv) == {i \in 1..Len(ipiv) : ipiv[i] # i - 1}

\* Compute the logarithm of the determinant of a matrix
logdet(mat) ==
    LET result(res, detP) == toFirstLogBranch(IF detP = 1 THEN res ELSE LogAdd(res, LogIPi))
        factored(f) == result(SumLogDiag(f.lu, 1),
                              IF Cardinality(PivotMismatch(f.ipiv)) % 2 = 0 THEN 1 ELSE -1)
    IN  Let(Getrf(mat), factored)

\* ilogdet: logdet that leaves the factors in its argument
ilogdet(mat) == logdet(mat)

\* invert(mat, ipiv): getrf followed by getri. A singular matrix raises a
\* runtime failure and leaves the factors of getrf in mat.
Invert(A) ==
    IF IsSingular(A) THEN [ok |-> FALSE, mat |-> Getrf(A).lu]
    ELSE [ok |-> TRUE, mat |-> Inverse(A)]

\* ------------------------------------------------------------------------
\* HubbardFermiMatrix
\* ------------------------------------------------------------------------

Species == {"PARTICLE", "HOLE"}

nx == Dim(_kappa)

\* getNt(phi, nx): phi is kept as the sequence of its time slices
getNt(phi) == Len(phi)

\* exp(s*i*p) for a field value p = a*pi/2 + i*b*ln 2 and s = +-1
IPow(k) == CASE k % 4 = 0 -> COne [] k % 4 = 1 -> CI
             [] k % 4 = 2 -> CReal(-1) [] k % 4 = 3 -> CNeg(CI)
RECURSIVE Pow2(_)
Pow2(e) == IF e = 0 THEN 1 ELSE 2 * Pow2(e - 1)
ExpI(s, p) ==
    CASE ~p.rot ->
        LET e == -s * p.b
        IN  CMul(IPow(s * p.a), IF e >= 0 THEN <<Pow2(e), 0, 1>> ELSE <<1, 0, Pow2(-e)>>)

\* -I*phi, entry by entry: (-i) * i * (a*pi/2 + i*b*ln 2)
MinusITimes(phi) ==
    [t \in 1..Len(phi) |-> [x \in 1..Len(phi[t]) |->
        CASE phi[t][x].rot -> [phi[t][x] EXCEPT !.rot = FALSE]
          [] phi[t][x].a = 0 /\ phi[t][x].b = 0 -> phi[t][x]]]

K(species) ==
    IF species = "PARTICLE"
    THEN MatSub(MatScale(CAdd(COne, _mu), IdMatrix(nx)), _kappa)
    ELSE MatSub(MatScale(CSub(COne, _mu), IdMatrix(nx)), MatScale(CReal(_sigmaKappa), _kappa))

\* F(tp, phi, species, inv); time slices are counted from 0 as in the source
F(tp, phi, species, inv) ==
    LET NT  == getNt(phi)
        tm1 == IF tp = 0 THEN NT - 1 ELSE tp - 1
        s   == IF (inv /\ species = "PARTICLE") \/ (species = "HOLE" /\ ~inv) THEN -1 ELSE 1
    IN  Mat(nx, LAMBDA i, j : IF i = j THEN ExpI(s, phi[tm1 + 1][i]) ELSE CZero)

P ==
    MatAdd(MatSub(MatScale(CSub(CReal(2), CMul(_mu, _mu)), IdMatrix(nx)),
                  MatScale(CSub(CAdd(CMul(CReal(_sigmaKappa), CAdd(COne, _mu)), COne), _mu), _kappa)),
           MatScale(CReal(_sigmaKappa), MatMul(_kappa, _kappa)))

\* a Tplus with the sign of the anti-periodic boundary on the last time slice
TplusSignAtLast(tp, phi) ==
    LET NT  == getNt(phi)
        tm1 == IF tp = 0 THEN NT - 1 ELSE tp - 1
        antiPSign == IF tp = NT - 1 THEN -1 ELSE 1
        T   == MatSub(MatScale(CReal(_sigmaKappa), _kappa),
                      MatScale(CSub(COne, _mu), IdMatrix(nx)))
    IN  Mat(nx, LAMBDA xp, x :
            CMul(T[xp][x], CMul(CReal(antiPSign), ExpI(1, phi[tm1 + 1][xp]))))

Tplus(tp, phi) ==
    LET NT  == getNt(phi)
        tm1 == IF tp = 0 THEN NT - 1 ELSE tp - 1
        antiPSign == IF tp = 0 THEN -1 ELSE 1
        T   == MatSub(MatScale(CReal(_sigmaKappa), _kappa), MatScale(CSub(COne, _mu), IdMatrix(nx)))
    IN  Mat(nx, LAMBDA xp, y :
            CMul(T[xp][y], CMul(CReal(antiPSign), ExpI(1, phi[tm1 + 1][xp]))))

Tminus(tp, phi) ==
    LET NT  == getNt(phi)
        antiPSign == IF tp = NT - 1 THEN -1 ELSE 1
        T   == MatSub(_kappa, MatScale(CAdd(COne, _mu), IdMatrix(nx)))
    IN  Mat(nx, LAMBDA y, x :
            CMul(T[y][x], CMul(CReal(antiPSign), ExpI(-1, phi[tp + 1][x]))))


\* A spacetime matrix is kept by its Nx x Nx blocks: spacemat(m, t1, t2, NX) is
\* m.b[<<t1, t2>>], for 0 <= t1, t2 < m.nt.  The empty matrix has nt = 0.
Grid(n, blk(_, _)) ==
    [nt |-> n, b |-> [ij \in (0..n-1) \X (0..n-1) |-> blk(ij[1], ij[2])]]
ZeroGrid(n, dim) == LET z(i, j) == ZeroMatrix(dim) IN Grid(n, z)
EmptyGrid == [nt |-> 0, b |-> <<>>]

\* Resize a square matrix, throws away old elements (only when the size differs)
resizeMatrix(mat, target) == IF mat.nt # target THEN ZeroGrid(target, nx) ELSE mat

\* M(phi, species) built into a fresh matrix: the assignments in the order of
\* the source
M(phi, species) ==
    LET NT == getNt(phi)
        k  == K(species)
        RECURSIVE rowsFrom(_, _)
        rowsFrom(m, tp) ==
            IF tp < NT
            THEN Let([m EXCEPT !.b[<<tp, tp - 1>>] = MatNeg(F(tp, phi, species, FALSE)),
                               !.b[<<tp, tp>>] = k],
                     LAMBDA m1 : rowsFrom(m1, tp + 1))
            ELSE m
        zeroth(m) ==
            [[m EXCEPT !.b[<<0, 0>>] = k]
                EXCEPT !.b[<<0, NT - 1>>] = F(0, phi, species, FALSE)]
    IN  rowsFrom(zeroth(resizeMatrix(EmptyGrid, NT)), 1)

\* a loop of Q that assigns T^- to its block instead of adding it
RECURSIVE QLoopAssigningTminus(_, _, _)
QLoopAssigningTminus(q, tp, phi) ==
    LET NT == getNt(phi)
        q1 == [q  EXCEPT !.b[<<tp, tp>>] = P]
        q2 == [q1 EXCEPT !.b[<<tp, (tp + NT - 1) % NT>>] = MatAdd(@, Tplus(tp, phi))]
        q3 == [q2 EXCEPT !.b[<<tp, (tp + 1) % NT>>] = Tminus(tp, phi)]
    IN  IF tp >= NT THEN q ELSE QLoopAssigningTminus(q3, tp + 1, phi)

RECURSIVE QLoop(_, _, _)
QLoop(q, tp, phi) ==
    LET NT == getNt(phi)
        q1 == [q  EXCEPT !.b[<<tp, tp>>] = P]
        q2 == [q1 EXCEPT !.b[<<tp, (tp + NT - 1) % NT>>] = MatAdd(@, Tplus(tp, phi))]
        q3 == [q2 EXCEPT !.b[<<tp, (tp + 1) % NT>>] = MatAdd(@, Tminus(tp, phi))]
    IN  IF tp >= NT THEN q ELSE QLoop(q3, tp + 1, phi)

\* Q(q, phi): builds Q in place in q
QInto(q, phi) == QLoop(resizeMatrix(q, getNt(phi)), 0, phi)

\* Q(phi): builds Q in a fresh matrix
Q(phi) == QInto(EmptyGrid, phi)

\* ------------------------------------------------------------------------
\* QLU
\* ------------------------------------------------------------------------

\* element i (counted from 0) of a std::vector
At(s, i) == s[i + 1]

\* std::size_t arithmetic wraps around.  The modulus stands for 2^64; any value
\* above the list sizes gives the same comparisons and range checks.
SizeT(n) == n % 65536

isConsistent(lu) ==
    LET nt == Len(lu.dinv)
    IN  IF nt = 0 THEN FALSE
        ELSE IF Len(lu.u) # SizeT(nt - 1) \/ Len(lu.l) # SizeT(nt - 1) THEN FALSE
        ELSE IF nt > 1 /\ (Len(lu.v) # SizeT(nt - 2) \/ Len(lu.h) # SizeT(nt - 2)) THEN FALSE
        ELSE TRUE

\* Special case LU decomposition of Q for nt == 1
nt1QLU(phi) ==
    LET store(iv) == [ok |-> iv.ok, dinv |-> <<iv.mat>>,
                      u |-> <<>>, l |-> <<>>, v |-> <<>>, h |-> <<>>]
    IN  Let(Invert(MatAdd(MatAdd(P, Tplus(0, phi)), Tminus(0, phi))), store)

\* an nt2QLU that stores the corner blocks in v and h as the general case does
nt2QLUWithCorners(phi) ==
    LET store(d0, l0, aux0, d1) ==
            [ok |-> d0.ok /\ d1.ok, dinv |-> <<d0.mat, d1.mat>>,
             u |-> <<aux0>>, l |-> <<l0>>,
             v |-> <<Tplus(0, phi)>>, h |-> <<MatMul(Tminus(1, phi), d0.mat)>>]
        second(d0, l0, aux0) ==
            Let(Invert(MatSub(P, MatMul(l0, aux0))), LAMBDA d1 : store(d0, l0, aux0, d1))
        first(d0) ==
            Let(MatMul(Tplus(1, phi), d0.mat), LAMBDA l0 :
                Let(Tminus(0, phi), LAMBDA aux0 : second(d0, l0, aux0)))
    IN  Let(Invert(P), first)

\* Special case LU decomposition of Q for nt == 2
nt2QLU(phi) ==
    LET store(d0, l0, aux0, d1) ==
            [ok |-> d0.ok /\ d1.ok, dinv |-> <<d0.mat, d1.mat>>,
             u |-> <<aux0>>, l |-> <<l0>>, v |-> <<>>, h |-> <<>>]
        second(d0, l0, aux0) ==
            Let(Invert(MatSub(P, MatMul(l0, aux0))), LAMBDA d1 : store(d0, l0, aux0, d1))
        first(d0) ==
            Let(MatMul(MatAdd(Tplus(1, phi), Tminus(1, phi)), d0.mat), LAMBDA l0 :
                Let(MatAdd(Tplus(0, phi), Tminus(0, phi)), LAMBDA aux0 : second(d0, l0, aux0)))
    IN  Let(Invert(P), first)

\* the loop of generalQLU for i in [1, nt-3]; s.cur is the local u
RECURSIVE generalQLULoop(_, _, _)
generalQLULoop(s, i, phi) ==
    LET push(d, un) ==
            [ok   |-> s.ok /\ d.ok,
             dinv |-> Append(s.dinv, d.mat),
             l    |-> Append(s.l, MatMul(Tplus(i + 1, phi), d.mat)),
             h    |-> Append(s.h, MatMul(MatMul(MatNeg(At(s.h, i - 1)), s.cur), d.mat)),
             v    |-> Append(s.v, MatMul(MatNeg(At(s.l, i - 1)), At(s.v, i - 1))),
             u    |-> Append(s.u, un),
             cur  |-> un]
    IN  IF i < SizeT(getNt(phi) - 2)
        THEN Let(push(Invert(MatSub(P, MatMul(At(s.l, i - 1), s.cur))), Tminus(i, phi)),
                 LAMBDA s1 : generalQLULoop(s1, i + 1, phi))
        ELSE s

RECURSIVE SumHV(_, _, _)
SumHV(lu, i, n) ==
    IF i < n THEN MatAdd(MatMul(At(lu.h, i), At(lu.v, i)), SumHV(lu, i + 1, n))
    ELSE ZeroMatrix(nx)

\* General case LU decomposition of Q for nt > 2
generalQLU(phi) ==
    LET nt == getNt(phi)
        last(s, dl) == [ok |-> s.ok /\ dl.ok, dinv |-> Append(s.dinv, dl.mat),
                        u |-> s.u, l |-> s.l, v |-> s.v, h |-> s.h]
        \* final component of d
        finalD(s) ==
            Let(Invert(MatSub(MatSub(P, MatMul(At(s.l, nt - 2), At(s.u, nt - 2))),
                              SumHV(s, 0, SizeT(nt - 2)))),
                LAMBDA dl : last(s, dl))
        \* final components of u, l
        finalUL(s, dm) ==
            Let([s EXCEPT
                    !.ok = @ /\ dm.ok,
                    !.dinv = Append(@, dm.mat),
                    !.u = Append(@, MatSub(Tminus(nt - 2, phi),
                                           MatMul(At(s.l, nt - 3), At(s.v, nt - 3)))),
                    !.l = Append(@, MatMul(MatSub(Tplus(nt - 1, phi),
                                                  MatMul(At(s.h, nt - 3), s.cur)),
                                           dm.mat))],
                finalD)
        \* additional 'regular' step for d
        regularD(s) ==
            Let(Invert(MatSub(P, MatMul(At(s.l, nt - 3), s.cur))), LAMBDA dm : finalUL(s, dm))
        \* starting components of d, u, l, v, h
        start(d0, u0) ==
            Let([ok |-> d0.ok, dinv |-> <<d0.mat>>, u |-> <<u0>>,
                 l |-> <<MatMul(Tplus(1, phi), d0.mat)>>,
                 v |-> <<Tplus(0, phi)>>,
                 h |-> <<MatMul(Tminus(nt - 1, phi), d0.mat)>>, cur |-> u0],
                LAMBDA s0 : Let(generalQLULoop(s0, 1, phi), regularD))
    IN  Let(Invert(P), LAMBDA d0 : start(d0, Tminus(0, phi)))

getQLU(phi) ==
    CASE getNt(phi) = 1 -> nt1QLU(phi)
      [] getNt(phi) = 2 -> nt2QLU(phi)
      [] OTHER -> generalQLU(phi)


\* the list elements QLU::reconstruct reads, as <<list, index>>, for nt >= 2
reconstructReads(lu) ==
    LET nt == Len(lu.dinv)
        n3 == SizeT(nt - 3)
        regular == {i \in 1..(nt - 3) : i < SizeT(nt - 2)}
    IN  {<<"dinv", 0>>, <<"u", 0>>, <<"v", 0>>}
        \cup UNION {{<<"dinv", i>>, <<"l", i - 1>>, <<"u", i - 1>>, <<"dinv", i - 1>>,
                     <<"u", i>>, <<"v", i - 1>>, <<"v", i>>} : i \in regular}
        \cup {<<"dinv", nt - 2>>, <<"l", n3>>, <<"u", n3>>, <<"dinv", n3>>,
              <<"v", n3>>, <<"u", nt - 2>>}
        \cup {<<"h", 0>>}
        \cup UNION {{<<"dinv", i>>, <<"h", i - 1>>, <<"u", i - 1>>, <<"h", i>>} : i \in regular}
        \cup {<<"h", n3>>, <<"l", nt - 2>>, <<"dinv", nt - 1>>}
        \cup {<<"h", i>> : i \in {j \in 0..(nt - 3) : j < SizeT(nt - 2)}}
        \cup {<<"v", i>> : i \in {j \in 0..(nt - 3) : j < SizeT(nt - 2)}}

\* the reads that fall outside their list
reconstructOutOfRange(lu) ==
    {r \in reconstructReads(lu) : r[2] < 0 \/ r[2] >= Len(lu[r[1]])}

\* the blocks reconstruct assigns, in the order of the source; block (i, j) of
\* the result is the last assignment to it, 0 where there is none
reconstructBlock(lu, i, j) ==
    LET nt == Len(lu.dinv)
        D(k) == Inverse(At(lu.dinv, k))
    IN  CASE i = nt - 1 /\ j = nt - 1 ->
                MatAdd(MatAdd(D(nt - 1), MatMul(At(lu.l, nt - 2), At(lu.u, nt - 2))),
                       SumHV(lu, 0, SizeT(nt - 2)))
          [] i = nt - 1 /\ j = nt - 2 ->
                MatAdd(MatMul(At(lu.h, nt - 3), At(lu.u, nt - 3)),
                       MatMul(At(lu.l, nt - 2), D(nt - 2)))
          [] i = nt - 1 /\ j >= 1 /\ j < nt - 2 ->
                MatAdd(MatMul(At(lu.h, j - 1), At(lu.u, j - 1)), MatMul(At(lu.h, j), D(j)))
          [] i = nt - 1 /\ j = 0 -> MatMul(At(lu.h, 0), D(0))
          [] i = nt - 2 /\ j = nt - 1 ->
                MatAdd(MatMul(At(lu.l, nt - 3), At(lu.v, nt - 3)), At(lu.u, nt - 2))
          [] i = nt - 2 /\ j = nt - 3 -> MatMul(At(lu.l, nt - 3), D(nt - 3))
          [] i = nt - 2 /\ j = nt - 2 ->
                MatAdd(D(nt - 2), MatMul(At(lu.l, nt - 3), At(lu.u, nt - 3)))
          [] i >= 1 /\ i < nt - 2 /\ j = nt - 1 ->
                MatAdd(MatMul(At(lu.l, i - 1), At(lu.v, i - 1)), At(lu.v, i))
          [] i >= 1 /\ i < nt - 2 /\ j = i + 1 -> At(lu.u, i)
          [] i >= 1 /\ i < nt - 2 /\ j = i - 1 -> MatMul(At(lu.l, i - 1), D(i - 1))
          [] i >= 1 /\ i < nt - 2 /\ j = i ->
                MatAdd(D(i), MatMul(At(lu.l, i - 1), At(lu.u, i - 1)))
          [] i = 0 /\ j = nt - 1 -> At(lu.v, 0)
          [] i = 0 /\ j = 1 -> At(lu.u, 0)
          [] i = 0 /\ j = 0 -> D(0)
          [] OTHER -> ZeroMatrix(Dim(At(lu.dinv, 0)))

\* reconstruct that begins with the consistency check
reconstructWithoutCheck(lu) ==
    IF ~isConsistent(lu) THEN [kind |-> "runtime_error"]
    ELSE IF reconstructOutOfRange(lu) # {} THEN [kind |-> "ub"]
    ELSE [kind |-> "ok", value |-> Grid(Len(lu.dinv), LAMBDA i, j : reconstructBlock(lu, i, j))]

\* QLU::reconstruct.  kind is "domain_error" for nt < 2, "runtime_error" for an
\* inconsistent lu, "ub" when a list is read out of range (the result is then
\* whatever the build produces), else "ok" with the matrix.
reconstruct(lu) ==
    LET nt == Len(lu.dinv)
        blk(i, j) == reconstructBlock(lu, i, j)
    IN  IF nt < 2 THEN [kind |-> "domain_error"]
        ELSE IF ~isConsistent(lu) THEN [kind |-> "runtime_error"]
        ELSE IF reconstructOutOfRange(lu) # {} THEN [kind |-> "ub"]
        ELSE [kind |-> "ok", value |-> Grid(nt, blk)]


\* ------------------------------------------------------------------------
\* The lazy caches of HubbardFermiMatrix.  A call works on the record
\* c = [kinvp, kinvh, ldp, ldh] of the four mutable members and yields the
\* record after the call together with what the call returns.
\* ------------------------------------------------------------------------

NaNLog == [re |-> NaN, im |-> AngZero]
EmptyMatrix == <<>>
rows(m) == Len(m)

caches == [kinvp |-> _kinvp, kinvh |-> _kinvh, ldp |-> _logdetKinvp, ldh |-> _logdetKinvh]

\* an update that forgets the hole log-determinant
clearedCachesButLogdetKinvh ==
    [kinvp |-> EmptyMatrix, kinvh |-> EmptyMatrix, ldp |-> NaNLog, ldh |-> _logdetKinvh]

\* the four members cleared by updateKappa and updateMu
clearedCaches == [kinvp |-> EmptyMatrix, kinvh |-> EmptyMatrix, ldp |-> NaNLog, ldh |-> NaNLog]

\* a Kinv that inverts K on every call and stores nothing
KinvOnUncached(c, species) ==
    LET fill(iv) ==
            IF iv.ok THEN [c |-> c, kind |-> "ok", value |-> iv.mat, inverted |-> TRUE]
            ELSE [c |-> c, kind |-> "runtime_error", value |-> EmptyMatrix, inverted |-> TRUE]
    IN  Let(Invert(K(species)), fill)

\* HubbardFermiMatrix::Kinv(species) on the members c
KinvOn(c, species) ==
    LET cached == IF species = "PARTICLE" THEN c.kinvp ELSE c.kinvh
        store(mat) == IF species = "PARTICLE" THEN [c EXCEPT !.kinvp = mat]
                      ELSE [c EXCEPT !.kinvh = mat]
        fill(iv) ==
            IF iv.ok THEN [c |-> store(iv.mat), kind |-> "ok", value |-> iv.mat, inverted |-> TRUE]
            ELSE [c |-> store(iv.mat), kind |-> "runtime_error", value |-> EmptyMatrix,
                  inverted |-> TRUE]
    IN  IF rows(cached) = 0 THEN Let(Invert(K(species)), fill)
        ELSE [c |-> c, kind |-> "ok", value |-> cached, inverted |-> FALSE]

\* HubbardFermiMatrix::logdetKinv(species) on the members c
logdetKinvOn(c, species) ==
    LET cached == IF species = "PARTICLE" THEN c.ldp ELSE c.ldh
        store(k, ld) ==
            [c |-> IF species = "PARTICLE" THEN [k.c EXCEPT !.ldp = ld]
                   ELSE [k.c EXCEPT !.ldh = ld],
             kind |-> "ok", value |-> ld, inverted |-> k.inverted]
        fill(k) == IF k.kind = "ok" THEN Let(logdet(k.value), LAMBDA ld : store(k, ld))
                   ELSE [c |-> k.c, kind |-> k.kind, value |-> NaNLog, inverted |-> k.inverted]
    IN  IF IsNaN(cached.re) THEN Let(KinvOn(c, species), fill)
        ELSE [c |-> c, kind |-> "ok", value |-> cached, inverted |-> FALSE]

\* a test of the Kinv cache that always finds it empty
kinvCheckAlwaysEmpty(t, c) == [t EXCEPT !.pc = "kinv_assign"]

\* if (_kinvp.rows() == 0) of Kinv, read by the thread t from the members c
kinvCheck(t, c) ==
    IF rows(IF t.species = "PARTICLE" THEN c.kinvp ELSE c.kinvh) = 0
    THEN [t EXCEPT !.pc = "kinv_assign"]
    ELSE [t EXCEPT !.pc = "kinv_return"]

\* one step of the thread t inside Kinv or logdetKinv on the members c: the
\* test of a cache, the assignment of K, the inversion in place, the read of
\* the result, the assignment of the log-determinant.  A thread of logdetKinv
\* runs Kinv inside.
threadStep(t, c) ==
    LET kinv == IF t.species = "PARTICLE" THEN c.kinvp ELSE c.kinvh
        ld == IF t.species = "PARTICLE" THEN c.ldp ELSE c.ldh
        storeKinv(mat) == IF t.species = "PARTICLE" THEN [c EXCEPT !.kinvp = mat]
                          ELSE [c EXCEPT !.kinvh = mat]
        storeLd(x) == IF t.species = "PARTICLE" THEN [c EXCEPT !.ldp = x]
                      ELSE [c EXCEPT !.ldh = x]
        returned(kind, value) == [t EXCEPT !.pc = "idle", !.kind = kind, !.value = value]
        inverted(iv) ==
            [t |-> IF iv.ok THEN [t EXCEPT !.pc = "kinv_return"]
                   ELSE returned("runtime_error", <<>>),
             c |-> storeKinv(iv.mat)]
    IN  CASE t.pc = "ld_check" ->
                [t |-> [t EXCEPT !.pc = IF IsNaN(ld.re) THEN "kinv_check" ELSE "ld_return"],
                 c |-> c]
          [] t.pc = "kinv_check" -> [t |-> kinvCheck(t, c), c |-> c]
          [] t.pc = "kinv_assign" ->
                [t |-> [t EXCEPT !.pc = "kinv_invert"], c |-> storeKinv(K(t.species))]
          [] t.pc = "kinv_invert" -> Let(Invert(kinv), inverted)
          [] t.pc = "kinv_return" ->
                [t |-> IF t.op = "Kinv" THEN returned("ok", kinv)
                       ELSE [t EXCEPT !.pc = "ld_assign", !.value = kinv],
                 c |-> c]
          [] t.pc = "ld_assign" ->
                [t |-> [t EXCEPT !.pc = "ld_return"], c |-> storeLd(logdet(t.value))]
          [] t.pc = "ld_return" -> [t |-> returned("ok", ld), c |-> c]

\* the product kinv*F(0) * kinv*F(1) * ... * kinv*F(NT-1) built by logdetM
RECURSIVE logdetMAux(_, _, _, _, _)
logdetMAux(aux, kinv, t, phi, species) ==
    IF t < getNt(phi)
    THEN Let(MatMul(MatMul(aux, kinv), F(t, phi, species, FALSE)),
             LAMBDA next : logdetMAux(next, kinv, t + 1, phi, species))
    ELSE aux

\* a logdetM that subtracts the logarithm of det(1 + aux)
logdetMBodySubtracting(c, phi, species) ==
    LET result(aux, ldk) ==
            [c |-> ldk.c, kind |-> "ok",
             value |-> toFirstLogBranch(LogAdd(LogNeg(LogTimes(getNt(phi), ldk.value)),
                                               LogNeg(logdet(MatAdd(IdMatrix(nx), aux)))))]
        product(k) ==
            IF k.kind # "ok" THEN [c |-> k.c, kind |-> k.kind, value |-> NaNLog]
            ELSE Let(logdetMAux(MatMul(k.value, F(0, phi, species, FALSE)),
                                k.value, 1, phi, species),
                     LAMBDA aux : Let(logdetKinvOn(k.c, species), LAMBDA ldk : result(aux, ldk)))
    IN  Let(KinvOn(c, species), product)

\* logdetM past its check of mu
logdetMBody(c, phi, species) ==
    LET result(aux, ldk) ==
            [c |-> ldk.c, kind |-> "ok",
             value |-> toFirstLogBranch(LogAdd(LogNeg(LogTimes(getNt(phi), ldk.value)),
                                               logdet(MatAdd(IdMatrix(nx), aux))))]
        product(k) ==
            IF k.kind # "ok" THEN [c |-> k.c, kind |-> k.kind, value |-> NaNLog]
            ELSE Let(logdetMAux(MatMul(k.value, F(0, phi, species, FALSE)),
                                k.value, 1, phi, species),
                     LAMBDA aux : Let(logdetKinvOn(k.c, species), LAMBDA ldk : result(aux, ldk)))
    IN  Let(KinvOn(c, species), product)

\* a logdetM that fetches Kinv before it checks mu
logdetMOnKinvFirst(c, phi, species) ==
    LET check(k) == IF ~CIsZero(_mu) THEN [c |-> k.c, kind |-> "runtime_error", value |-> NaNLog]
                    ELSE logdetMBody(c, phi, species)
    IN  Let(KinvOn(c, species), check)

\* logdetM(hfm, phi, species) on the members c
logdetMOn(c, phi, species) ==
    IF ~CIsZero(_mu) THEN [c |-> c, kind |-> "runtime_error", value |-> NaNLog]
    ELSE logdetMBody(c, phi, species)


\* space vectors: sequences of Nx complex numbers; a spacetime vector is the
\* sequence of its time slices, spacevec(v, t, NX) is v[t + 1]
RECURSIVE MatVecFrom(_, _, _, _)
MatVecFrom(A, v, i, k) ==
    IF k > Dim(A) THEN CZero ELSE CAdd(CMul(A[i][k], v[k]), MatVecFrom(A, v, i, k + 1))
MatVec(A, v) == Vec(Dim(A), LAMBDA i : MatVecFrom(A, v, i, 1))
VecAdd(v, w) == Vec(Len(v), LAMBDA i : CAdd(v[i], w[i]))
VecSub(v, w) == Vec(Len(v), LAMBDA i : CSub(v[i], w[i]))

\* solveM, first sweep: res[0] = kinv*rhs[0], res[t] = kinv*(rhs[t] + F(t)*res[t-1])
RECURSIVE solveMForward(_, _, _, _, _, _)
solveMForward(res, kinv, t, phi, species, rhs) ==
    IF t < getNt(phi)
    THEN Let(Append(res, MatVec(kinv, VecAdd(rhs[t + 1],
                                             MatVec(F(t, phi, species, FALSE), res[t])))),
             LAMBDA next : solveMForward(next, kinv, t + 1, phi, species, rhs))
    ELSE res

\* solveM, partial products of A: kinv*F(0), kinv*F(t)*partialA.back() for t < nt-1
RECURSIVE solveMPartialA(_, _, _, _, _)
solveMPartialA(partialA, kinv, t, phi, species) ==
    IF t < SizeT(getNt(phi) - 1)
    THEN Let(Append(partialA, MatMul(MatMul(kinv, F(t, phi, species, FALSE)),
                                     partialA[Len(partialA)])),
             LAMBDA next : solveMPartialA(next, kinv, t + 1, phi, species))
    ELSE partialA

\* solveM, second sweep on one right hand side
solveMBackward(res, partialA, invmat) ==
    LET nt == Len(res)
        sweep(last) ==
            [t \in 1..nt |-> IF t = nt THEN last ELSE VecSub(res[t], MatVec(partialA[t], last))]
    IN  Let(MatVec(invmat, res[nt]), sweep)

\* solveM(hfm, phi, species, rhs) on the members c; rhs is a list of vectors
solveMOn(c, phi, species, rhs) ==
    LET second(k, partialA, iv) ==
            IF ~iv.ok THEN [c |-> k.c, kind |-> "runtime_error", value |-> <<>>]
            ELSE [c |-> k.c, kind |-> "ok",
                  value |-> [i \in 1..Len(rhs) |->
                      solveMBackward(
                          solveMForward(<<MatVec(k.value, rhs[i][1])>>, k.value, 1,
                                        phi, species, rhs[i]),
                          partialA, iv.mat)]]
        matrix(k, partialA) ==
            Let(Invert(MatAdd(IdMatrix(nx),
                              MatMul(MatMul(k.value, F(getNt(phi) - 1, phi, species, FALSE)),
                                     partialA[Len(partialA)]))),
                LAMBDA iv : second(k, partialA, iv))
        first(k) ==
            IF k.kind # "ok" THEN [c |-> k.c, kind |-> k.kind, value |-> <<>>]
            ELSE Let(solveMPartialA(<<MatMul(k.value, F(0, phi, species, FALSE))>>,
                                    k.value, 1, phi, species),
                     LAMBDA partialA : matrix(k, partialA))
    IN  Let(KinvOn(c, species), first)

\* logdetQ(lu) and ilogdetQ(lu): minus the sum of the log-determinants of the
\* diagonal blocks, projected
RECURSIVE SumNegLogdet(_, _)
SumNegLogdet(dinv, i) ==
    IF i > Len(dinv) THEN LogZero
    ELSE LogAdd(LogNeg(ilogdet(dinv[i])), SumNegLogdet(dinv, i + 1))

ilogdetQ(lu) ==
    IF ~isConsistent(lu) THEN [kind |-> "runtime_error", value |-> NaNLog]
    ELSE [kind |-> "ok", value |-> toFirstLogBranch(SumNegLogdet(lu.dinv, 1))]

\* logdetQ(hfm, phi); a singular block makes getQLU fail
logdetQ(phi) ==
    LET onLU(lu) == IF ~lu.ok THEN [kind |-> "runtime_error", value |-> NaNLog]
                    ELSE ilogdetQ(lu)
    IN  Let(getQLU(phi), onLU)

\* a solveQ whose backward sweep leaves out the last-column blocks v
solveQWithoutV(lu, rhs) ==
    LET nt == Len(lu.dinv)
        RECURSIVE forward(_, _)
        forward(y, i) ==
            IF i < SizeT(nt - 1)
            THEN Let(Append(y, VecSub(rhs[i + 1], MatVec(At(lu.l, i - 1), At(y, i - 1)))),
                     LAMBDA y1 : forward(y1, i + 1))
            ELSE y
        RECURSIVE back(_, _, _)
        back(y, xs, i) ==
            IF i # SizeT(-1)
            THEN Let(<<MatVec(At(lu.dinv, i),
                              VecSub(At(y, i), MatVec(At(lu.u, i), xs[1])))>> \o xs,
                     LAMBDA xs1 : back(y, xs1, SizeT(i - 1)))
            ELSE xs
        RECURSIVE bottom(_, _, _)
        bottom(y, acc, j) ==
            IF j < SizeT(nt - 2)
            THEN Let(VecSub(acc, MatVec(At(lu.h, j), At(y, j))),
                     LAMBDA acc1 : bottom(y, acc1, j + 1))
            ELSE acc
        upper(y) ==
            IF nt > 1
            THEN Let(MatVec(At(lu.dinv, nt - 1), At(y, nt - 1)), LAMBDA xl :
                     Let(<<MatVec(At(lu.dinv, nt - 2),
                                  VecSub(At(y, nt - 2), MatVec(At(lu.u, nt - 2), xl))), xl>>,
                         LAMBDA xs : back(y, xs, SizeT(nt - 3))))
            ELSE <<MatVec(At(lu.dinv, nt - 1), At(y, nt - 1))>>
        lower(y) ==
            IF nt > 1
            THEN Let(VecSub(rhs[nt], MatVec(At(lu.l, nt - 2), At(y, nt - 2))),
                     LAMBDA acc : Append(y, bottom(y, acc, 0)))
            ELSE y
    IN  IF ~isConsistent(lu) \/ Len(rhs) # nt THEN [kind |-> "runtime_error", value |-> <<>>]
        ELSE [kind |-> "ok", value |-> Let(Let(forward(<<rhs[1]>>, 1), lower), upper)]

\* solveQ(lu, rhs): y holds the slices of the solution of L*y = rhs found so
\* far, xs the slices i+1 .. nt-1 of the solution of U*x = y
solveQ(lu, rhs) ==
    LET nt == Len(lu.dinv)
        RECURSIVE forward(_, _)
        forward(y, i) ==
            IF i < SizeT(nt - 1)
            THEN Let(Append(y, VecSub(rhs[i + 1], MatVec(At(lu.l, i - 1), At(y, i - 1)))),
                     LAMBDA y1 : forward(y1, i + 1))
            ELSE y
        RECURSIVE back(_, _, _)
        back(y, xs, i) ==
            IF i # SizeT(-1)
            THEN Let(<<MatVec(At(lu.dinv, i),
                              VecSub(VecSub(At(y, i), MatVec(At(lu.u, i), xs[1])),
                                     MatVec(At(lu.v, i), xs[Len(xs)])))>> \o xs,
                     LAMBDA xs1 : back(y, xs1, SizeT(i - 1)))
            ELSE xs
        RECURSIVE bottom(_, _, _)
        bottom(y, acc, j) ==
            IF j < SizeT(nt - 2)
            THEN Let(VecSub(acc, MatVec(At(lu.h, j), At(y, j))),
                     LAMBDA acc1 : bottom(y, acc1, j + 1))
            ELSE acc
        upper(y) ==
            IF nt > 1
            THEN Let(MatVec(At(lu.dinv, nt - 1), At(y, nt - 1)), LAMBDA xl :
                     Let(<<MatVec(At(lu.dinv, nt - 2),
                                  VecSub(At(y, nt - 2), MatVec(At(lu.u, nt - 2), xl))), xl>>,
                         LAMBDA xs : back(y, xs, SizeT(nt - 3))))
            ELSE <<MatVec(At(lu.dinv, nt - 1), At(y, nt - 1))>>
        lower(y) ==
            IF nt > 1
            THEN Let(VecSub(rhs[nt], MatVec(At(lu.l, nt - 2), At(y, nt - 2))),
                     LAMBDA acc : Append(y, bottom(y, acc, 0)))
            ELSE y
    IN  IF ~isConsistent(lu) \/ Len(rhs) # nt THEN [kind |-> "runtime_error", value |-> <<>>]
        ELSE [kind |-> "ok", value |-> Let(Let(forward(<<rhs[1]>>, 1), lower), upper)]

\* a solveQ that skips its forward loop and enters its blocks for nt > 1
\* whatever nt is
solveQStepsUnguarded(lu) ==
    LET nt == Len(lu.dinv)
        RECURSIVE back(_, _)
        back(st, i) ==
            IF i # SizeT(-1) /\ Len(st.back) < nt
            THEN back([st EXCEPT !.x = Append(@, i), !.back = Append(@, i),
                                 !.reads = @ \cup {<<"dinv", i>>, <<"u", i>>, <<"v", i>>}],
                      SizeT(i - 1))
            ELSE st
    IN  back([y |-> <<0, SizeT(nt - 1)>>, x |-> <<SizeT(nt - 1), SizeT(nt - 2)>>, back |-> <<>>,
              reads |-> {<<"l", SizeT(nt - 2)>>, <<"dinv", SizeT(nt - 1)>>,
                         <<"dinv", SizeT(nt - 2)>>, <<"u", SizeT(nt - 2)>>}],
             SizeT(nt - 3))

\* solveQ(lu, rhs), statement by statement: the time slices of y and of x in
\* the order they are assigned, the values of i in the passes of the backward
\* loop, and the elements of the five lists that are read, as <<list, index>>
solveQSteps(lu) ==
    LET nt == Len(lu.dinv)
        \* for (std::size_t i = 1; i < nt-1; ++i)
        RECURSIVE forward(_, _)
        forward(st, i) ==
            IF i < SizeT(nt - 1)
            THEN forward([st EXCEPT !.y = Append(@, i), !.reads = @ \cup {<<"l", SizeT(i - 1)>>}],
                         i + 1)
            ELSE st
        \* for (std::size_t j = 0; j < nt-2; ++j)
        RECURSIVE bottom(_, _)
        bottom(st, j) ==
            IF j < SizeT(nt - 2)
            THEN bottom([st EXCEPT !.reads = @ \cup {<<"h", j>>}], j + 1)
            ELSE st
        lower(st) ==
            IF nt > 1
            THEN bottom([st EXCEPT !.y = Append(@, nt - 1),
                                   !.reads = @ \cup {<<"l", SizeT(nt - 2)>>}], 0)
            ELSE st
        \* for (std::size_t i = nt-3; i != static_cast<std::size_t>(-1); --i)
        RECURSIVE back(_, _)
        back(st, i) ==
            IF i # SizeT(-1)
            THEN back([st EXCEPT !.x = Append(@, i), !.back = Append(@, i),
                                 !.reads = @ \cup {<<"dinv", i>>, <<"u", i>>, <<"v", i>>}],
                      SizeT(i - 1))
            ELSE st
        upper(st) ==
            IF nt > 1
            THEN back([st EXCEPT !.x = Append(@, nt - 2),
                                 !.reads = @ \cup {<<"dinv", SizeT(nt - 2)>>,
                                                   <<"u", SizeT(nt - 2)>>}],
                      SizeT(nt - 3))
            ELSE st
        last(st) == upper([st EXCEPT !.x = Append(@, nt - 1),
                                     !.reads = @ \cup {<<"dinv", SizeT(nt - 1)>>}])
    IN  last(lower(forward([y |-> <<0>>, x |-> <<>>, back |-> <<>>, reads |-> {}], 1)))

\* the reads of solveQ beyond the size of the list
solveQOutOfRange(lu) == {r \in solveQSteps(lu).reads : ~(r[2] < Len(lu[r[1]]))}

\* the product of a spacetime matrix with a spacetime vector, slice by slice
RECURSIVE GridRowTimes(_, _, _, _)
GridRowTimes(q, x, t, s) ==
    IF s >= q.nt THEN Vec(Dim(q.b[<<t, 0>>]), LAMBDA i : CZero)
    ELSE VecAdd(MatVec(q.b[<<t, s>>], x[s + 1]), GridRowTimes(q, x, t, s + 1))
GridTimes(q, x) == [t \in 1..q.nt |-> GridRowTimes(q, x, t - 1, 0)]

\* ------------------------------------------------------------------------
\* HubbardFermiAction
\* ------------------------------------------------------------------------

HFAHopping == {"DIA", "EXP"}
HFAVariant == {"ONE", "TWO"}
HFABasis == {"PARTICLE_HOLE", "SPIN"}

\* the support graph of the hopping matrix admits a 2-colouring with no
\* monochromatic edge
isBipartite(hopping) ==
    \E colour \in [1..Dim(hopping) -> {0, 1}] :
        \A i, j \in 1..Dim(hopping) :
            ~CIsZero(hopping[i][j]) => colour[i] # colour[j]

\* a shortcut decision that does not look at sigmaKappa
_holeShortcutPossibleAnySigma(BASIS, hopping, muTilde, sigmaKappa) ==
    IF BASIS = "SPIN" THEN FALSE
    ELSE IF ~isBipartite(hopping) THEN FALSE
    ELSE IF ~CIsZero(muTilde) THEN FALSE
    ELSE TRUE

\* _holeShortcutPossible<BASIS>(hopping, muTilde, sigmaKappa)
_holeShortcutPossible(BASIS, hopping, muTilde, sigmaKappa) ==
    IF BASIS = "SPIN" THEN FALSE
    ELSE IF ~isBipartite(hopping) THEN FALSE
    ELSE IF ~CIsZero(muTilde) THEN FALSE
    ELSE IF sigmaKappa # 1 THEN FALSE
    ELSE TRUE

\* HubbardFermiMatrix(kappa, mu, sigmaKappa): the members after construction
HubbardFermiMatrix(kappa, mu, sigmaKappa) ==
    [kappa |-> kappa, mu |-> mu, sigmaKappa |-> sigmaKappa,
     c |-> [kinvp |-> EmptyMatrix, kinvh |-> EmptyMatrix, ldp |-> NaNLog, ldh |-> NaNLog]]

\* HubbardFermiAction<HOPPING, VARIANT, BASIS>(kappa, mu, sigmaKappa)
HubbardFermiAction(HOPPING, VARIANT, BASIS, kappa, mu, sigmaKappa) ==
    [HOPPING |-> HOPPING, VARIANT |-> VARIANT, BASIS |-> BASIS,
     hfm |-> HubbardFermiMatrix(kappa, mu, sigmaKappa),
     shortcutForHoles |-> _holeShortcutPossible(BASIS, kappa, mu, sigmaKappa)]

NoAction == [HOPPING |-> "None"]

\* a factory whose SPIN branch for EXP and TWO builds the DIA action
makeHubbardFermiActionDiaForExp(kappaTilde, muTilde, sigmaKappa, hopping, basis, variant) ==
    HubbardFermiAction(IF basis = "SPIN" /\ variant = "TWO" THEN "DIA" ELSE hopping,
                       variant, basis, kappaTilde, muTilde, sigmaKappa)

\* Make a specific HubbardFermiAction controlled through run-time parameters
makeHubbardFermiActionOn(kappaTilde, muTilde, sigmaKappa, hopping, basis, variant) ==
    IF basis = "PARTICLE_HOLE" THEN
        IF hopping = "DIA" THEN
            IF variant = "ONE"
            THEN HubbardFermiAction("DIA", "ONE", "PARTICLE_HOLE", kappaTilde, muTilde, sigmaKappa)
            ELSE HubbardFermiAction("DIA", "TWO", "PARTICLE_HOLE", kappaTilde, muTilde, sigmaKappa)
        ELSE
            IF variant = "ONE"
            THEN HubbardFermiAction("EXP", "ONE", "PARTICLE_HOLE", kappaTilde, muTilde, sigmaKappa)
            ELSE HubbardFermiAction("EXP", "TWO", "PARTICLE_HOLE", kappaTilde, muTilde, sigmaKappa)
    ELSE
        IF hopping = "DIA" THEN
            IF variant = "ONE"
            THEN HubbardFermiAction("DIA", "ONE", "SPIN", kappaTilde, muTilde, sigmaKappa)
            ELSE HubbardFermiAction("DIA", "TWO", "SPIN", kappaTilde, muTilde, sigmaKappa)
        ELSE
            IF variant = "ONE"
            THEN HubbardFermiAction("EXP", "ONE", "SPIN", kappaTilde, muTilde, sigmaKappa)
            ELSE HubbardFermiAction("EXP", "TWO", "SPIN", kappaTilde, muTilde, sigmaKappa)

\* the keyword defaults of the Python binding; "unset" is an argument left out
hoppingDefault(hopping) == IF hopping = "unset" THEN "DIA" ELSE hopping
basisDefault(basis) == IF basis = "unset" THEN "PARTICLE_HOLE" ELSE basis
variantDefault(variant) == IF variant = "unset" THEN "ONE" ELSE variant

\* an eval that takes the branch of both species whatever _shortcutForHoles is
evalOnBothSpecies(c, a, phi, first) ==
    LET aux == IF a.BASIS = "SPIN" THEN MinusITimes(phi) ELSE phi
        second == IF first = "PARTICLE" THEN "HOLE" ELSE "PARTICLE"
        call(species) == [fn |-> "logdetM", species |-> species]
        failed(r, calls) == [c |-> r.c, kind |-> r.kind, value |-> NaNLog, calls |-> calls]
        both(r1, r2) ==
            IF r2.kind # "ok" THEN failed(r2, <<call(first), call(second)>>)
            ELSE [c |-> r2.c, kind |-> "ok", calls |-> <<call(first), call(second)>>,
                  value |-> LogNeg(toFirstLogBranch(LogAdd(r1.value, r2.value)))]
        one(r1) ==
            IF r1.kind # "ok" THEN failed(r1, <<call(first)>>)
            ELSE Let(logdetMOn(r1.c, aux, second), LAMBDA r2 : both(r1, r2))
        square(q) ==
            [c |-> c, kind |-> q.kind, calls |-> <<[fn |-> "logdetQ"]>>,
             value |-> IF q.kind = "ok" THEN LogNeg(q.value) ELSE NaNLog]
    IN  IF a.VARIANT = "ONE" THEN Let(logdetMOn(c, aux, first), one)
        ELSE Let(logdetQ(aux), square)

\* HubbardFermiAction<DIA, VARIANT, BASIS>::eval(phi) of the action a on the
\* members c of its _hfm.  The two logdetM calls of a sum are unsequenced:
\* first is the species whose call runs first.
evalOn(c, a, phi, first) ==
    LET aux == IF a.BASIS = "SPIN" THEN MinusITimes(phi) ELSE phi
        second == IF first = "PARTICLE" THEN "HOLE" ELSE "PARTICLE"
        call(species) == [fn |-> "logdetM", species |-> species]
        failed(r, calls) == [c |-> r.c, kind |-> r.kind, value |-> NaNLog, calls |-> calls]
        both(r1, r2) ==
            IF r2.kind # "ok" THEN failed(r2, <<call(first), call(second)>>)
            ELSE [c |-> r2.c, kind |-> "ok", calls |-> <<call(first), call(second)>>,
                  value |-> LogNeg(toFirstLogBranch(LogAdd(r1.value, r2.value)))]
        one(r1) ==
            IF r1.kind # "ok" THEN failed(r1, <<call(first)>>)
            ELSE Let(logdetMOn(r1.c, aux, second), LAMBDA r2 : both(r1, r2))
        shortcut(ldp) ==
            IF ldp.kind # "ok" THEN failed(ldp, <<call("PARTICLE")>>)
            ELSE [c |-> ldp.c, kind |-> "ok", calls |-> <<call("PARTICLE")>>,
                  value |-> LogNeg(toFirstLogBranch(LogAdd(ldp.value, LogConj(ldp.value))))]
        square(q) ==
            [c |-> c, kind |-> q.kind, calls |-> <<[fn |-> "logdetQ"]>>,
             value |-> IF q.kind = "ok" THEN LogNeg(q.value) ELSE NaNLog]
    IN  IF a.VARIANT = "ONE"
        THEN IF a.BASIS = "PARTICLE_HOLE" /\ a.shortcutForHoles
             THEN Let(logdetMOn(c, phi, "PARTICLE"), shortcut)
             ELSE Let(logdetMOn(c, aux, first), one)
        ELSE Let(logdetQ(aux), square)

\* forceDirectSinglePart that accepts a single time slice
forceDirectSinglePartFromOne(phi, k, species) ==
    IF getNt(phi) < 1 THEN [kind |-> "invalid_argument", value |-> <<>>, built |-> 0]
    ELSE [kind |-> "ok", value |-> [t \in 1..getNt(phi) |-> Vec(nx, LAMBDA x : CZero)],
          built |-> 1]

\* forceDirectSinglePart whose list of partial products also holds the
\* full product
forceDirectSinglePartFullLefts(phi, k, species) ==
    LET nt == getNt(phi)
        diagonal(A) == Vec(Dim(A), LAMBDA i : A[i][i])
        fk(t) == MatMul(F(t, phi, species, TRUE), k)
        \* other terms
        RECURSIVE leftsFrom(_, _)
        leftsFrom(lefts, t) ==
            IF t = 0 THEN lefts
            ELSE Let(Append(lefts, MatMul(fk(t), lefts[Len(lefts)])),
                     LAMBDA l : leftsFrom(l, SizeT(t - 1)))
        write(tau, index, right, row) ==
            [tau |-> tau, index |-> index, right |-> right, row |-> row]
        \* all sites except tau = nt-1
        RECURSIVE sites(_, _, _, _, _)
        sites(force, writes, right, lefts, tau) ==
            IF ~(tau < nt - 1) THEN [force |-> force, writes |-> writes]
            ELSE Let(MatMul(right, fk(tau)),
                     LAMBDA r :
                       Let(diagonal(MatMul(At(lefts, nt - 1 - tau - 1), r)),
                           LAMBDA row :
                             sites([force EXCEPT ![tau + 1] = row],
                                   Append(writes, write(tau, nt - 1 - tau - 1, r, row)),
                                   r, lefts, tau + 1)))
        finished(lefts, Ainv, s) ==
            [kind |-> "ok", built |-> nt + 1, value |-> s.force,
             lefts |-> lefts, Ainv |-> Ainv, writes |-> s.writes]
        first(lefts, Ainv, right, row) ==
            finished(lefts, Ainv,
                     sites([t \in 1..nt |-> row], <<write(nt - 1, -1, right, row)>>,
                           right, lefts, 0))
        inverted(lefts, Ainv, right) ==
            IF ~right.ok THEN [kind |-> "runtime_error", value |-> <<>>, built |-> nt + 1]
            ELSE first(lefts, Ainv, right.mat, diagonal(MatMul(Ainv, right.mat)))
        full(lefts, Ainv) == inverted(lefts, Ainv, Invert(MatAdd(IdMatrix(nx), Ainv)))
        withLefts(lefts) == full(lefts, MatMul(fk(0), lefts[Len(lefts)]))
    IN  IF nt < 2 THEN [kind |-> "invalid_argument", value |-> <<>>, built |-> 0]
        ELSE Let(leftsFrom(<<fk(nt - 1)>>, nt - 1), withLefts)

\* forceDirectSinglePart(hfm, phi, k, species): the force w/o -i of one
\* species; built counts the matrices built before the call returns or throws.
\* lefts is the list of partial products, writes the assignments to slices of
\* the force in the order they are made: the slice tau, the index into lefts
\* (-1 for Ainv), the matrix right and the row written.
forceDirectSinglePart(phi, k, species) ==
    LET nt == getNt(phi)
        diagonal(A) == Vec(Dim(A), LAMBDA i : A[i][i])
        fk(t) == MatMul(F(t, phi, species, TRUE), k)
        \* other terms
        RECURSIVE leftsFrom(_, _)
        leftsFrom(lefts, t) ==
            IF t = 0 THEN lefts
            ELSE Let(Append(lefts, MatMul(fk(t), lefts[Len(lefts)])),
                     LAMBDA l : leftsFrom(l, SizeT(t - 1)))
        write(tau, index, right, row) ==
            [tau |-> tau, index |-> index, right |-> right, row |-> row]
        \* all sites except tau = nt-1
        RECURSIVE sites(_, _, _, _, _)
        sites(force, writes, right, lefts, tau) ==
            IF ~(tau < nt - 1) THEN [force |-> force, writes |-> writes]
            ELSE Let(MatMul(right, fk(tau)),
                     LAMBDA r :
                       Let(diagonal(MatMul(At(lefts, nt - 1 - tau - 1), r)),
                           LAMBDA row :
                             sites([force EXCEPT ![tau + 1] = row],
                                   Append(writes, write(tau, nt - 1 - tau - 1, r, row)),
                                   r, lefts, tau + 1)))
        finished(lefts, Ainv, s) ==
            [kind |-> "ok", built |-> nt + 1, value |-> s.force,
             lefts |-> lefts, Ainv |-> Ainv, writes |-> s.writes]
        first(lefts, Ainv, right, row) ==
            finished(lefts, Ainv,
                     sites([t \in 1..nt |-> row], <<write(nt - 1, -1, right, row)>>,
                           right, lefts, 0))
        inverted(lefts, Ainv, right) ==
            IF ~right.ok THEN [kind |-> "runtime_error", value |-> <<>>, built |-> nt + 1]
            ELSE first(lefts, Ainv, right.mat, diagonal(MatMul(Ainv, right.mat)))
        full(lefts, Ainv) == inverted(lefts, Ainv, Invert(MatAdd(IdMatrix(nx), Ainv)))
        withLefts(lefts) == full(lefts, MatMul(fk(0), lefts[Len(lefts)]))
    IN  IF nt < 2 THEN [kind |-> "invalid_argument", value |-> <<>>, built |-> 0]
        ELSE Let(leftsFrom(<<fk(nt - 1)>>, nt - 2), withLefts)

\* mult_CDMatrix_wrapper(a, b, n): the n x n product a * b of the GPU backend
mult_CDMatrix_wrapper(a, b, n) == MatMul(a, b)

\* lu_CDMatrix_wrapper(A, ipiv, n): the LU factors of A, kept as the inverse
\* they stand for, or a failure for a singular A
lu_CDMatrix_wrapper(A) == Invert(A)

\* inv_CDMatrix_wrapper(lu, right, ipiv, n, transpose): lu^-1 * right, or
\* (lu^T)^-1 * right when transpose is set
inv_CDMatrix_wrapper(lu, right, transpose) ==
    IF transpose THEN MatMul(Transpose(lu.mat), right) ELSE MatMul(lu.mat, right)

\* forceDirectSinglePart(hfm, phi, k, species) of a build with USE_CUDA
forceDirectSinglePartCuda(phi, k, species) ==
    LET nt == getNt(phi)
        diagonal(A) == Vec(Dim(A), LAMBDA i : A[i][i])
        f(t) == F(t, phi, species, TRUE)
        fk(t) == mult_CDMatrix_wrapper(f(t), k, nx)
        \* other terms
        RECURSIVE leftsFrom(_, _)
        leftsFrom(lefts, t) ==
            IF t = 0 THEN lefts
            ELSE Let(Append(lefts, mult_CDMatrix_wrapper(fk(t), lefts[Len(lefts)], nx)),
                     LAMBDA l : leftsFrom(l, SizeT(t - 1)))
        \* all sites except tau = nt-1
        RECURSIVE sites(_, _, _, _, _)
        sites(force, right, lefts, AinvPlusId, tau) ==
            IF ~(tau < nt - 1) THEN force
            ELSE Let(IF tau # 0 THEN mult_CDMatrix_wrapper(right, fk(tau), nx)
                     ELSE inv_CDMatrix_wrapper(AinvPlusId, f(tau), FALSE),
                     LAMBDA r : sites([force EXCEPT ![tau + 1] =
                                           diagonal(mult_CDMatrix_wrapper(
                                               At(lefts, nt - 1 - tau - 1), r, nx))],
                                      r, lefts, AinvPlusId, tau + 1))
        first(lefts, AinvPlusId, right) ==
            [kind |-> "ok", built |-> nt + 1,
             value |-> sites([t \in 1..nt |-> diagonal(right)], right, lefts, AinvPlusId, 0)]
        factored(lefts, Ainv, AinvPlusId) ==
            IF ~AinvPlusId.ok THEN [kind |-> "runtime_error", value |-> <<>>, built |-> nt + 1]
            ELSE first(lefts, AinvPlusId,
                       inv_CDMatrix_wrapper(AinvPlusId, Transpose(Ainv), TRUE))
        full(lefts, Ainv) ==
            factored(lefts, Ainv, lu_CDMatrix_wrapper(MatAdd(IdMatrix(nx), Ainv)))
        withLefts(lefts) == full(lefts, mult_CDMatrix_wrapper(fk(0), lefts[Len(lefts)], nx))
    IN  IF nt < 2 THEN [kind |-> "invalid_argument", value |-> <<>>, built |-> 0]
        ELSE Let(leftsFrom(<<fk(nt - 1)>>, nt - 2), withLefts)

\* CDMatrix QInv{hfm.Q(phi)}; invert(QInv, ipiv): the blocks of the inverse
\* of Q, spacemat(QInv, t1, t2, nx) being QInv.b[<<t1, t2>>], or a failure
\* for a singular Q
invertQ(phi) ==
    LET nt == getNt(phi)
        n  == nx * nt
        \* Q as one matrix with the identity to its right
        aug(q) == [i \in 1..n |-> [j \in 1..(2 * n) |->
                      IF j <= n
                      THEN q.b[<<(i - 1) \div nx, (j - 1) \div nx>>][((i - 1) % nx) + 1][((j - 1) % nx) + 1]
                      ELSE IF j = n + i THEN COne ELSE CZero]]
        pivots(A, c) == {r \in c..n : ~CIsZero(A[r][c])}
        reduce(A, c, row) ==
            [i \in 1..n |-> IF i = c THEN row
                            ELSE [j \in 1..(2 * n) |-> CSub(A[i][j], CMul(A[i][c], row[j]))]]
        scaled(A, c, r) == [j \in 1..(2 * n) |-> CMul(A[r][j], CInv(A[r][c]))]
        eliminate(A, c, r) == reduce([A EXCEPT ![r] = A[c]], c, scaled(A, c, r))
        RECURSIVE invert(_, _)
        invert(A, c) ==
            IF c > n THEN [ok |-> TRUE, A |-> A]
            ELSE IF pivots(A, c) = {} THEN [ok |-> FALSE]
            ELSE Let(eliminate(A, c, CHOOSE r \in pivots(A, c) : \A o \in pivots(A, c) : r <= o),
                     LAMBDA A2 : invert(A2, c + 1))
        block(A, t1, t2) == Mat(nx, LAMBDA i, j : A[t1 * nx + i][n + t2 * nx + j])
        blocks(r) ==
            IF ~r.ok THEN [ok |-> FALSE, nt |-> nt, b |-> <<>>]
            ELSE [ok |-> TRUE, nt |-> nt,
                  b |-> [ij \in (0..nt-1) \X (0..nt-1) |-> block(r.A, ij[1], ij[2])]]
    IN  Let(invert(aug(Q(phi)), 1), blocks)

\* std::size_t loopIdx(i, n): i wrapped into [0, n)
loopIdx(i, n) == i % n

\* a forceDirectSquare that adds its second term
forceDirectSquareAdding(phi) ==
    LET nt == getNt(phi)
        term(QInv, tau) ==
            Vec(nx, LAMBDA x :
                CMul(CI, CAdd(MatMul(Tplus(loopIdx(tau + 1, nt), phi),
                                     QInv.b[<<tau, loopIdx(tau + 1, nt)>>])[x][x],
                              MatMul(QInv.b[<<loopIdx(tau + 1, nt), tau>>],
                                     Tminus(tau, phi))[x][x])))
        force(QInv) ==
            IF ~QInv.ok THEN [kind |-> "runtime_error", value |-> <<>>, QInv |-> QInv]
            ELSE [kind |-> "ok", value |-> [t \in 1..nt |-> term(QInv, t - 1)], QInv |-> QInv]
    IN  Let(invertQ(phi), force)

\* forceDirectSquare(hfm, phi) for the DIA discretization
forceDirectSquare(phi) ==
    LET nt == getNt(phi)
        term(QInv, tau) ==
            Vec(nx, LAMBDA x :
                CSub(CMul(CI, MatMul(Tplus(loopIdx(tau + 1, nt), phi),
                                     QInv.b[<<tau, loopIdx(tau + 1, nt)>>])[x][x]),
                     CMul(CI, MatMul(QInv.b[<<loopIdx(tau + 1, nt), tau>>],
                                     Tminus(tau, phi))[x][x])))
        force(QInv) ==
            IF ~QInv.ok THEN [kind |-> "runtime_error", value |-> <<>>, QInv |-> QInv]
            ELSE [kind |-> "ok", value |-> [t \in 1..nt |-> term(QInv, t - 1)], QInv |-> QInv]
    IN  Let(invertQ(phi), force)

\* forceDirectSquare(hfm, phi) for the EXP discretization.  Q, Tplus and
\* Tminus are those of the matrix it is given: the matrix of the EXP
\* discretisation has the same blocks with its hopping factor in the place of
\* kappa, which _kappa stands for here.
forceDirectSquareExp(phi) ==
    LET nt == getNt(phi)
        term(QInv, tau) ==
            Vec(nx, LAMBDA x :
                CSub(CMul(CI, MatMul(QInv.b[<<tau, loopIdx(tau + 1, nt)>>],
                                     Tplus(loopIdx(tau + 1, nt), phi))[x][x]),
                     CMul(CI, MatMul(Tminus(tau, phi),
                                     QInv.b[<<loopIdx(tau + 1, nt), tau>>])[x][x])))
        force(QInv) ==
            IF ~QInv.ok THEN [kind |-> "runtime_error", value |-> <<>>, QInv |-> QInv]
            ELSE [kind |-> "ok", value |-> [t \in 1..nt |-> term(QInv, t - 1)], QInv |-> QInv]
    IN  Let(invertQ(phi), force)

\* ------------------------------------------------------------------------
\* The action algebra of the Python binding.  An object is a record with its
\* class; a SumAction holds the addresses of its members in actions.
\* ------------------------------------------------------------------------

isAction(obj) == obj.class \in {"HubbardGaugeAction", "SumAction"}

\* an addAction that never looks into a SumAction
addActionWhole(sum, action) ==
    IF isAction(heap[action]) THEN [kind |-> "ok", actions |-> Append(sum.actions, action)]
    ELSE [kind |-> "cast_error", actions |-> sum.actions]

\* addAction(sum, action): sum is the SumAction under construction, action
\* the address of a Python object.  The cast of None to SumAction* gives a
\* null pointer without a cast_error, and otherSum->size() reads through it.
addAction(sum, action) ==
    IF heap[action].class = "NoneType"
    THEN [kind |-> "ub", actions |-> sum.actions]
    ELSE IF heap[action].class = "SumAction"
    THEN [kind |-> "ok", actions |-> sum.actions \o heap[action].actions]
    ELSE IF isAction(heap[action]) THEN [kind |-> "ok", actions |-> Append(sum.actions, action)]
    ELSE [kind |-> "cast_error", actions |-> sum.actions]

\* SumAction(*args): every argument is added as it is; None is cast to a null
\* pointer and added
SumActionOf(args) ==
    IF \A i \in 1..Len(args) : isAction(heap[args[i]]) \/ heap[args[i]].class = "NoneType"
    THEN [kind |-> "ok", actions |-> args]
    ELSE [kind |-> "cast_error", actions |-> <<>>]

\* Action.__add__(self, other): the SumAction returned, or the failed cast
addOn(self, other) ==
    LET second(s1) ==
            IF s1.kind # "ok" THEN s1
            ELSE addAction([class |-> "SumAction", actions |-> s1.actions], other)
    IN  second(addAction([class |-> "SumAction", actions |-> <<>>], self))

\* ------------------------------------------------------------------------
\* Inputs
\* ------------------------------------------------------------------------

\* the real number n/2
Half(n) == CNorm(n, 0, 2)
M1(a) == << <<Half(a)>> >>
M2(a, b, c, d) == << <<Half(a), Half(b)>>, <<Half(c), Half(d)>> >>

\* hopping matrices: one and two sites, with and without a singular K
KappaSet == {M1(1), M1(2), M2(2, 2, 2, 0)}
MuSet == {CZero, COne}
SigmaKappaSet == {1, -1}

\* field values a*pi/2 + i*b*ln 2
FV(a, b) == [rot |-> FALSE, a |-> a, b |-> b]
PhiVals == <<FV(0, 0), FV(1, 0), FV(2, 1), FV(3, -1), FV(2, 0)>>

\* a configuration with NT time slices of dim sites
PhiPattern(dim, NT, c1, c2, s) ==
    [t \in 1..NT |-> [x \in 1..dim |-> PhiVals[((c1 * t + c2 * x + s) % Len(PhiVals)) + 1]]]
PhiSet(dim, lo, hi) ==
    {PhiPattern(dim, NT, c1, 1, 0) : NT \in lo..hi, c1 \in 0..1}

\* largest number of time slices given to logdetM and solveM
MaxNtM == 2

\* right hand sides of solveM: lists of one spacetime vector
RhsSet(dim, NT) ==
    {<<[t \in 1..NT |-> [x \in 1..dim |-> IF t = 1 /\ x = 1 THEN COne ELSE CReal(c)]]>> : c \in {1}}

\* the configurations i*phi, for the SPIN basis
SpinPhiSet(dim, lo, hi) ==
    {[t \in 1..Len(phi) |-> [x \in 1..dim |-> [phi[t][x] EXCEPT !.rot = TRUE]]] :
        phi \in PhiSet(dim, lo, hi)}

\* hopping matrices given to the factory: no hopping, one site hopping onto
\* itself, two sites with a self-hopping
KappaTildeSet == {M1(0), M1(1), M2(2, 2, 2, 0)}

\* hopping matrices given to the shortcut decision; the last two are a ring
\* and an open chain of three sites
HoppingSet ==
    {M1(0), M1(1), M2(0, 1, 1, 0), M2(2, 2, 2, 0),
     [i \in 1..3 |-> [j \in 1..3 |-> IF i = j THEN CZero ELSE COne]],
     [i \in 1..3 |-> [j \in 1..3 |-> IF Abs(i - j) = 1 THEN COne ELSE CZero]]}
SigmaKappaInt8Set == {-1, 0, 1}

\* enum arguments of the factory; "unset" leaves the keyword out
ArgSet(enum) == enum \cup {"unset"}

\* largest number of time slices given to eval
MaxNtA == 1

\* hopping matrices and largest number of time slices given to getQLU
QLUKappaSet == {M1(0), M1(2), M2(0, 2, 0, 0)}
MaxNtQ == 4
QLUPhiSet(dim) ==
    {PhiPattern(dim, NT, c1, 1, s) : NT \in 1..MaxNtQ, c1 \in 0..1, s \in {0, 2}}

\* complex numbers given to toFirstLogBranch: real part (1/2)*ln(r) and
\* imaginary part n*pi/2 + arg(x + i*y), up to MaxQuarterTurns quarter turns
MaxQuarterTurns == 8
BranchArgSet ==
    {[re |-> r, im |-> AngNorm(n, xy[1], xy[2])] :
        r \in {<<1, 1>>, <<4, 1>>, <<1, 9>>},
        n \in -MaxQuarterTurns..MaxQuarterTurns,
        xy \in {<<1, 0>>, <<1, 1>>, <<2, 1>>}}

\* three gauge actions a, b, c and one object that is no Action
InitialHeap ==
    <<[class |-> "HubbardGaugeAction"], [class |-> "HubbardGaugeAction"],
      [class |-> "HubbardGaugeAction"], [class |-> "object"]>>

\* largest number of Python objects and of members of a SumAction
MaxObjects == 7
MaxMembers == 4

\* ------------------------------------------------------------------------
\* The HubbardFermiMatrix object and the free functions on it
\* ------------------------------------------------------------------------

\* two threads call into one HubbardFermiMatrix
Threads == {1, 2}

\* every thread outside Kinv and logdetKinv, none has called yet
NoThreads ==
    [th \in Threads |-> [pc |-> "idle", op |-> "none", species |-> "PARTICLE",
                               kind |-> "none", value |-> <<>>]]

setCaches(c) ==
    /\ _kinvp' = c.kinvp
    /\ _kinvh' = c.kinvh
    /\ _logdetKinvp' = c.ldp
    /\ _logdetKinvh' = c.ldh

\* HubbardFermiMatrix(kappa, mu, sigmaKappa) with its arguments from the given
\* sets; no fermion action yet, and the gauge actions of the driver
InitFrom(kappas, mus, sigmaKappas) ==
    /\ _kappa \in kappas
    /\ _mu \in mus
    /\ _sigmaKappa \in sigmaKappas
    /\ _kinvp = EmptyMatrix
    /\ _kinvh = EmptyMatrix
    /\ _logdetKinvp = NaNLog
    /\ _logdetKinvh = NaNLog
    /\ hfa = NoAction
    /\ heap = InitialHeap
    /\ threads = NoThreads
    /\ ret = [op |-> "HubbardFermiMatrix"]

Init == InitFrom(KappaSet, MuSet, SigmaKappaSet)

Kinv(species) ==
    \E r \in {KinvOn(caches, species)} :
        /\ setCaches(r.c)
        /\ ret' = [op |-> "Kinv", species |-> species, kind |-> r.kind,
                   value |-> r.value, inverted |-> r.inverted]
        /\ UNCHANGED <<_kappa, _mu, _sigmaKappa, hfa, heap, threads>>

logdetKinv(species) ==
    \E r \in {logdetKinvOn(caches, species)} :
        /\ setCaches(r.c)
        /\ ret' = [op |-> "logdetKinv", species |-> species, kind |-> r.kind,
                   value |-> r.value, inverted |-> r.inverted]
        /\ UNCHANGED <<_kappa, _mu, _sigmaKappa, hfa, heap, threads>>

updateKappa(kappa) ==
    /\ setCaches(clearedCaches)
    /\ _kappa' = kappa
    /\ ret' = [op |-> "updateKappa", before |-> caches]
    /\ UNCHANGED <<_mu, _sigmaKappa, hfa, heap, threads>>

updateMu(mu) ==
    /\ setCaches(clearedCaches)
    /\ _mu' = mu
    /\ ret' = [op |-> "updateMu", before |-> caches]
    /\ UNCHANGED <<_kappa, _sigmaKappa, hfa, heap, threads>>

logdetM(phi, species) ==
    \E r \in {logdetMOn(caches, phi, species)} :
        /\ setCaches(r.c)
        /\ ret' = [op |-> "logdetM", species |-> species, phi |-> phi, kind |-> r.kind,
                   value |-> r.value]
        /\ UNCHANGED <<_kappa, _mu, _sigmaKappa, hfa, heap, threads>>

solveM(phi, species, rhs) ==
    \E r \in {solveMOn(caches, phi, species, rhs)} :
        /\ setCaches(r.c)
        /\ ret' = [op |-> "solveM", species |-> species, kind |-> r.kind, value |-> r.value]
        /\ UNCHANGED <<_kappa, _mu, _sigmaKappa, hfa, heap, threads>>

Next ==
    \/ \E species \in Species : Kinv(species)
    \/ \E species \in Species : logdetKinv(species)
    \/ \E kappa \in KappaSet : updateKappa(kappa)
    \/ \E mu \in MuSet : updateMu(mu)

Spec == Init /\ [][Next]_vars

\* hopping matrices handed to the constructor and to updateKappa: the square
\* ones, one of 1 x 2 and one of 2 x 1
KappaArgSet ==
    KappaSet \cup {<< <<Half(2), Half(0)>> >>, << <<Half(2)>>, <<Half(0)>> >>}

\* HubbardFermiMatrix(kappa, mu, sigmaKappa) replacing the matrix at hand.  The
\* check of the shape is compiled only without NDEBUG; a constructor that
\* throws leaves no object, and the matrix at hand stays.
NewHubbardFermiMatrix(kappa, mu, sigmaKappa) ==
    \E ndebug \in BOOLEAN :
        IF ~ndebug /\ (\E i \in 1..Len(kappa) : Len(kappa[i]) # Len(kappa))
        THEN /\ ret' = [op |-> "HubbardFermiMatrix", kind |-> "invalid_argument",
                        kappa |-> kappa]
             /\ UNCHANGED <<hfmVars, hfa, heap, threads>>
        ELSE /\ _kappa' = kappa
             /\ _mu' = mu
             /\ _sigmaKappa' = sigmaKappa
             /\ setCaches(clearedCaches)
             /\ ret' = [op |-> "HubbardFermiMatrix", kind |-> "ok", kappa |-> kappa]
             /\ UNCHANGED <<hfa, heap, threads>>

\* K, and so Kinv and logdetKinv, are computed for square kappa only
NextKappa ==
    \/ \E kappa \in KappaArgSet, mu \in MuSet, sigmaKappa \in SigmaKappaSet :
            NewHubbardFermiMatrix(kappa, mu, sigmaKappa)
    \/ \E kappa \in KappaArgSet : updateKappa(kappa)
    \/ \E mu \in MuSet : updateMu(mu)
    \/ \E species \in Species :
            (\A i \in 1..Len(_kappa) : Len(_kappa[i]) = Len(_kappa)) /\ Kinv(species)

SpecKappa == Init /\ [][NextKappa]_vars

\* the thread th calls Kinv(species) or logdetKinv(species), or takes the next
\* step of the call it is in
Thread(th) ==
    /\ IF threads[th].pc = "idle"
       THEN \E op \in {"Kinv", "logdetKinv"}, species \in Species :
                /\ threads' = [threads EXCEPT ![th] =
                                   [pc |-> IF op = "Kinv" THEN "kinv_check" ELSE "ld_check",
                                    op |-> op, species |-> species, kind |-> "running",
                                    value |-> <<>>]]
                /\ UNCHANGED <<_kinvp, _kinvh, _logdetKinvp, _logdetKinvh>>
       ELSE \E r \in {threadStep(threads[th], caches)} :
                /\ threads' = [threads EXCEPT ![th] = r.t]
                /\ setCaches(r.c)
    /\ UNCHANGED <<_kappa, _mu, _sigmaKappa, hfa, heap, ret>>

NextThreads == \E th \in Threads : Thread(th)

\* one site, with an invertible and with a singular K(PARTICLE)
InitThreads == InitFrom({M1(1), M1(2)}, {CZero}, {1})

SpecThreads == InitThreads /\ [][NextThreads]_vars

\* C1: after updateKappa or updateMu both cached inverses are empty and both
\* cached log-determinants are NaN, and the Kinv or logdetKinv call that follows
\* the update inverts K again and, when it succeeds, returns the value that
\* belongs to the new kappa and mu.
C1_UpdateInvalidatesCaches ==
    /\ [](ret.op \in {"updateKappa", "updateMu"} =>
            /\ rows(_kinvp) = 0
            /\ rows(_kinvh) = 0
            /\ IsNaN(_logdetKinvp.re)
            /\ IsNaN(_logdetKinvh.re))
    /\ [][(ret.op \in {"updateKappa", "updateMu"} /\ ret'.op \in {"Kinv", "logdetKinv"}) =>
            /\ ret'.inverted
            /\ (ret'.op = "Kinv" /\ ret'.kind = "ok") =>
                    ret'.value = Inverse(K(ret'.species))
            /\ (ret'.op = "logdetKinv" /\ ret'.kind = "ok") =>
                    ret'.value = logdet(Inverse(K(ret'.species)))]_vars

\* an update of mu that found both inverses and a log-determinant cached
C1_Witness ==
    /\ ret.op = "updateMu"
    /\ rows(ret.before.kinvp) # 0
    /\ rows(ret.before.kinvh) # 0
    /\ ~IsNaN(ret.before.ldh.re)
    /\ rows(_kinvp) = 0

\* C2: a filled Kinv cache holds the inverse of K(species) for the current
\* kappa, mu and sigmaKappa, and a cached logdetKinv is the log-determinant of
\* the cached inverse of the same species.
C2_FilledCacheHoldsInverse ==
    /\ rows(_kinvp) # 0 => MatMul(_kinvp, K("PARTICLE")) = IdMatrix(nx)
    /\ rows(_kinvh) # 0 => MatMul(_kinvh, K("HOLE")) = IdMatrix(nx)
    /\ ~IsNaN(_logdetKinvp.re) => (rows(_kinvp) # 0 /\ _logdetKinvp = logdet(_kinvp))
    /\ ~IsNaN(_logdetKinvh.re) => (rows(_kinvh) # 0 /\ _logdetKinvh = logdet(_kinvh))

\* the free functions logdetM and solveM called on one HubbardFermiMatrix
NextM ==
    \/ \E phi \in PhiSet(nx, 1, MaxNtM), species \in Species : logdetM(phi, species)
    \/ \E phi \in PhiSet(nx, 1, MaxNtM), species \in Species :
          \E rhs \in RhsSet(nx, getNt(phi)) : solveM(phi, species, rhs)

SpecM == Init /\ [][NextM]_vars

\* the non-singular matrices given to logdet: one and two rows, with and
\* without a row interchange in the factorisation
LogdetEntries == {CZero, COne, CI, CReal(-2)}
LogdetArgSet ==
    {<< <<a>> >> : a \in LogdetEntries \ {CZero}}
    \cup {A \in {<< <<a, b>>, <<c, d>> >> : a \in LogdetEntries, b \in LogdetEntries,
                                          c \in LogdetEntries, d \in LogdetEntries} :
            ~IsSingular(A)}

\* logdet(mat) called on a matrix
CallLogdet(mat) ==
    /\ ret' = [op |-> "logdet", mat |-> mat, ipiv |-> Getrf(mat).ipiv, value |-> logdet(mat)]
    /\ UNCHANGED <<hfmVars, hfa, heap, threads>>

NextLogdet == \E mat \in LogdetArgSet : CallLogdet(mat)

SpecLogdet == InitFrom({M1(1)}, {CZero}, {1}) /\ [][NextLogdet]_vars

\* largest number of time slices given to logdetM where the order of the
\* factors of its product matters
MaxNtLogdetM == 3

\* the hopping matrices of KappaSet and one that is not symmetric
LogdetMKappaSet == KappaSet \cup {M2(0, 2, 0, 0)}

NextLogdetM ==
    \E phi \in PhiSet(nx, 1, MaxNtLogdetM), species \in Species : logdetM(phi, species)

SpecLogdetM == InitFrom(LogdetMKappaSet, MuSet, SigmaKappaSet) /\ [][NextLogdetM]_vars

\* C3 as amended: logdetM on a matrix with mu # 0 raises a runtime-error
\* failure, for both species, and leaves the four caches as they were.
C3_LogdetMRefusesMu ==
    [][(ret'.op = "logdetM" /\ ~CIsZero(_mu)) =>
            /\ ret'.kind = "runtime_error"
            /\ UNCHANGED <<_kinvp, _kinvh, _logdetKinvp, _logdetKinvh>>]_vars

\* logdetM of the hole species refused with mu # 0 while an inverse is cached
C3_Witness ==
    /\ ret.op = "logdetM"
    /\ ret.species = "HOLE"
    /\ ~CIsZero(_mu)
    /\ ret.kind = "runtime_error"
    /\ rows(_kinvp) # 0

\* C3 as stated: the failure of logdetM with mu # 0 is an invalid-argument failure
C3_InvalidArgument ==
    (ret.op = "logdetM" /\ ~CIsZero(_mu)) => ret.kind = "invalid_argument"

\* C4: solveM on a matrix with mu # 0 raises a failure and returns no result
\* vectors.
C4_SolveMRefusesMu ==
    (ret.op = "solveM" /\ ~CIsZero(_mu)) => (ret.kind # "ok" /\ ret.value = <<>>)

\* ------------------------------------------------------------------------
\* Pure functions
\* ------------------------------------------------------------------------

CallToFirstLogBranch(x) ==
    /\ ret' = [op |-> "toFirstLogBranch", x |-> x, value |-> toFirstLogBranch(x)]
    /\ UNCHANGED <<hfmVars, hfa, heap, threads>>

CallHoleShortcutPossible(BASIS, hopping, muTilde, sigmaKappa) ==
    /\ ret' = [op |-> "_holeShortcutPossible", BASIS |-> BASIS, hopping |-> hopping,
               muTilde |-> muTilde, sigmaKappa |-> sigmaKappa,
               value |-> _holeShortcutPossible(BASIS, hopping, muTilde, sigmaKappa)]
    /\ UNCHANGED <<hfmVars, hfa, heap, threads>>

NextPure ==
    \/ \E x \in BranchArgSet : CallToFirstLogBranch(x)
    \/ \E BASIS \in HFABasis, hopping \in HoppingSet, muTilde \in MuSet,
          sigmaKappa \in SigmaKappaInt8Set :
            CallHoleShortcutPossible(BASIS, hopping, muTilde, sigmaKappa)

SpecPure == Init /\ [][NextPure]_vars

\* M(phi, species) and Q(phi), each built into a fresh matrix
CallM(phi, species) ==
    /\ ret' = [op |-> "M", phi |-> phi, species |-> species, value |-> M(phi, species)]
    /\ UNCHANGED <<hfmVars, hfa, heap, threads>>

CallQ(phi) ==
    /\ ret' = [op |-> "Q", phi |-> phi, value |-> Q(phi)]
    /\ UNCHANGED <<hfmVars, hfa, heap, threads>>

NextBuild ==
    \/ \E phi \in QLUPhiSet(nx), species \in Species : CallM(phi, species)
    \/ \E phi \in QLUPhiSet(nx) : CallQ(phi)

SpecBuild == Init /\ [][NextBuild]_vars

\* C5: the hole shortcut decision is a boolean for every input, and it is true
\* exactly when the basis is PARTICLE_HOLE, the hopping matrix is bipartite,
\* muTilde is 0 and sigmaKappa is +1; in particular it is false for SPIN.
C5_HoleShortcutDecision ==
    ret.op = "_holeShortcutPossible" =>
        /\ ret.value \in BOOLEAN
        /\ ret.value = (/\ ret.BASIS = "PARTICLE_HOLE"
                        /\ isBipartite(ret.hopping)
                        /\ CIsZero(ret.muTilde)
                        /\ ret.sigmaKappa = 1)
        /\ ret.BASIS = "SPIN" => ~ret.value

\* the decision came out true for a chain of three sites
C5_Witness ==
    /\ ret.op = "_holeShortcutPossible"
    /\ ret.value
    /\ Dim(ret.hopping) = 3

\* C8: toFirstLogBranch(z) has the real part of z, an imaginary part in
\* (-pi, pi], and differs from z by a multiple of 2*pi*i.
C8_FirstLogBranch ==
    ret.op = "toFirstLogBranch" =>
        /\ ret.value.re = ret.x.re
        /\ InFirstBranch(ret.value.im)
        /\ AngCongruent(ret.value.im, ret.x.im)

\* ------------------------------------------------------------------------
\* The factory and the action it makes
\* ------------------------------------------------------------------------

makeHubbardFermiAction(kappaTilde, muTilde, sigmaKappa, hopping, basis, variant) ==
    \E a \in {makeHubbardFermiActionOn(kappaTilde, muTilde, sigmaKappa,
                                         hoppingDefault(hopping), basisDefault(basis),
                                         variantDefault(variant))} :
        /\ hfa' = [HOPPING |-> a.HOPPING, VARIANT |-> a.VARIANT, BASIS |-> a.BASIS,
                   shortcutForHoles |-> a.shortcutForHoles]
        /\ _kappa' = a.hfm.kappa
        /\ _mu' = a.hfm.mu
        /\ _sigmaKappa' = a.hfm.sigmaKappa
        /\ setCaches(a.hfm.c)
        /\ ret' = [op |-> "makeHubbardFermiAction", kappaTilde |-> kappaTilde,
                   muTilde |-> muTilde, sigmaKappa |-> sigmaKappa,
                   hopping |-> hopping, basis |-> basis, variant |-> variant]
        /\ UNCHANGED <<heap, threads>>

\* the configurations eval is given: real multiples for PARTICLE_HOLE,
\* imaginary ones for SPIN
EvalPhiSet ==
    IF hfa.HOPPING # "DIA" THEN {}
    ELSE IF hfa.BASIS = "SPIN" THEN SpinPhiSet(nx, 1, MaxNtA)
    ELSE PhiSet(nx, 1, MaxNtA)

eval(phi, first) ==
    /\ hfa.HOPPING = "DIA"
    /\ \E r \in {evalOn(caches, hfa, phi, first)} :
        /\ setCaches(r.c)
        /\ ret' = [op |-> "eval", phi |-> phi, kind |-> r.kind, value |-> r.value,
                   wrote |-> r.c # caches, calls |-> r.calls]
        /\ UNCHANGED <<_kappa, _mu, _sigmaKappa, hfa, heap, threads>>

\* largest number of time slices given to force
MaxNtF == 3

\* largest number of time slices given to force of a DIRECT_SQUARE action
MaxNtSquare == 1

\* the configurations force is given; the DIRECT_SINGLE algorithm also gets
\* the empty configuration
ForcePhiSet ==
    IF hfa.HOPPING # "DIA" THEN {}
    ELSE IF hfa.BASIS = "SPIN"
    THEN IF hfa.VARIANT = "ONE" THEN SpinPhiSet(nx, 0, MaxNtF)
         ELSE SpinPhiSet(nx, 1, MaxNtSquare)
    ELSE IF hfa.VARIANT = "ONE" THEN PhiSet(nx, 0, MaxNtF) ELSE PhiSet(nx, 1, MaxNtSquare)

\* HubbardFermiAction<DIA, VARIANT, BASIS>::force(phi).  _kp and _kh are
\* K(PARTICLE) and K(HOLE) of the constant _hfm.  No member is written.
force(phi) ==
    /\ hfa.HOPPING = "DIA"
    /\ LET aux == IF hfa.BASIS = "SPIN" THEN MinusITimes(phi) ELSE phi
           map(f, g, op(_, _)) ==
               [t \in 1..Len(f) |-> Vec(nx, LAMBDA x : op(f[t][x], g[t][x]))]
           conj(z) == <<z[1], -z[2], z[3]>>
           minusI(z) == CMul(CNeg(CI), z)
           callp == [fn |-> "forceDirectSinglePart", species |-> "PARTICLE", k |-> "_kp"]
           callh == [fn |-> "forceDirectSinglePart", species |-> "HOLE", k |-> "_kh"]
           done(kind, value, built, calls) ==
               /\ ret' = [op |-> "force", phi |-> phi, kind |-> kind, value |-> value,
                          built |-> built, calls |-> calls]
               /\ UNCHANGED <<hfmVars, hfa, heap, threads>>
           single(fp, fh) ==
               IF fp.kind # "ok" THEN done(fp.kind, <<>>, fp.built, <<callp>>)
               ELSE IF fh.kind # "ok"
               THEN done(fh.kind, <<>>, fp.built + fh.built, <<callp, callh>>)
               ELSE done("ok",
                         IF hfa.BASIS = "SPIN"
                         THEN map(fh.value, fp.value, CSub)
                         ELSE map(fp.value, fh.value, LAMBDA a, b : minusI(CSub(a, b))),
                         fp.built + fh.built, <<callp, callh>>)
           shortcut(fp) ==
               IF fp.kind # "ok" THEN done(fp.kind, <<>>, fp.built, <<callp>>)
               ELSE done("ok", map(fp.value, fp.value, LAMBDA a, b : minusI(CSub(a, conj(b)))),
                         fp.built, <<callp>>)
           square(f) ==
               IF f.kind # "ok" THEN done(f.kind, <<>>, getNt(phi), <<[fn |-> "forceDirectSquare"]>>)
               ELSE done("ok",
                         IF hfa.BASIS = "SPIN"
                         THEN map(f.value, f.value, LAMBDA a, b : minusI(a))
                         ELSE f.value,
                         getNt(phi), <<[fn |-> "forceDirectSquare"]>>)
       IN  IF hfa.VARIANT = "ONE"
           THEN IF hfa.BASIS = "PARTICLE_HOLE" /\ hfa.shortcutForHoles
                THEN \E fp \in {forceDirectSinglePart(phi, K("PARTICLE"), "PARTICLE")} :
                        shortcut(fp)
                ELSE \E fp \in {forceDirectSinglePart(aux, K("PARTICLE"), "PARTICLE")} :
                        \E fh \in {forceDirectSinglePart(aux, K("HOLE"), "HOLE")} :
                            single(fp, fh)
           ELSE \E f \in {forceDirectSquare(aux)} : square(f)

\* HubbardFermiAction<EXP, DIRECT_SINGLE, BASIS>::eval(phi): the calls it makes.
\* What logdetM returns for the matrix of the EXP discretisation is left
\* open: every call returns or throws, and a throw ends the evaluation.
evalExp(phi, first, thrown) ==
    /\ hfa.HOPPING = "EXP"
    /\ hfa.VARIANT = "ONE"
    /\ LET second == IF first = "PARTICLE" THEN "HOLE" ELSE "PARTICLE"
           call(species) == [fn |-> "logdetM", species |-> species]
           calls == IF hfa.BASIS = "PARTICLE_HOLE" /\ hfa.shortcutForHoles
                    THEN <<call("PARTICLE")>>
                    ELSE <<call(first), call(second)>>
       IN  /\ thrown <= Len(calls)
           /\ ret' = [op |-> "eval", phi |-> phi,
                      kind |-> IF thrown = 0 THEN "returned" ELSE "thrown",
                      calls |-> IF thrown = 0 THEN calls ELSE SubSeq(calls, 1, thrown)]
    /\ UNCHANGED <<hfmVars, hfa, heap, threads>>

\* HubbardFermiAction<EXP, DIRECT_SINGLE, BASIS>::force(phi): the calls it
\* makes; forceDirectSinglePart throws for nt < 2 before it uses the matrix
forceExp(phi, thrown) ==
    /\ hfa.HOPPING = "EXP"
    /\ hfa.VARIANT = "ONE"
    /\ LET callp == [fn |-> "forceDirectSinglePart", species |-> "PARTICLE", k |-> "_kp"]
           callh == [fn |-> "forceDirectSinglePart", species |-> "HOLE", k |-> "_kh"]
           calls == IF hfa.BASIS = "PARTICLE_HOLE" /\ hfa.shortcutForHoles THEN <<callp>>
                    ELSE IF hfa.BASIS = "SPIN" THEN <<callh, callp>>
                    ELSE <<callp, callh>>
       IN  /\ thrown <= Len(calls)
           /\ getNt(phi) < 2 => thrown = 1
           /\ ret' = [op |-> "force", phi |-> phi,
                      kind |-> IF thrown = 0 THEN "returned"
                               ELSE IF getNt(phi) < 2 THEN "invalid_argument" ELSE "thrown",
                      calls |-> IF thrown = 0 THEN calls ELSE SubSeq(calls, 1, thrown)]
    /\ UNCHANGED <<hfmVars, hfa, heap, threads>>

\* largest number of calls of Q(q, phi) on one matrix q
MaxQCalls == 2

\* Q(q, phi) on the matrix q of the caller: empty before the first call, then
\* as the previous call left it
CallQInto(phi) ==
    /\ LET first == ret.op # "Q(q, phi)"
           q == IF first THEN EmptyGrid ELSE ret.q
           calls == IF first THEN 0 ELSE ret.calls
       IN  /\ calls < MaxQCalls
           /\ ret' = [op |-> "Q(q, phi)", phi |-> phi, before |-> q,
                      q |-> QInto(q, phi), calls |-> calls + 1]
    /\ UNCHANGED <<hfmVars, hfa, heap, threads>>

NextQInto == \E phi \in PhiSet(nx, 1, MaxNtF) : CallQInto(phi)

SpecQInto == Init /\ [][NextQInto]_vars

\* Tplus(tp, phi) and Tminus(tp, phi) of one time slice
CallTplusTminus(tp, phi) ==
    /\ ret' = [op |-> "Tplus/Tminus", tp |-> tp, phi |-> phi,
               Tplus |-> Tplus(tp, phi), Tminus |-> Tminus(tp, phi)]
    /\ UNCHANGED <<hfmVars, hfa, heap, threads>>

NextT == \E phi \in PhiSet(nx, 1, MaxNtF) : \E tp \in 0..(getNt(phi) - 1) :
             CallTplusTminus(tp, phi)

SpecT == Init /\ [][NextT]_vars

\* forceDirectSinglePart(_hfm, phi, k, species) with k = _kp or _kh, in a
\* build with the CPU backend and in a build with USE_CUDA
CallForceDirectSinglePart(phi, species) ==
    /\ ret' = [op |-> "forceDirectSinglePart", phi |-> phi, species |-> species,
               k |-> K(species),
               cpu |-> forceDirectSinglePart(phi, K(species), species),
               cuda |-> forceDirectSinglePartCuda(phi, K(species), species)]
    /\ UNCHANGED <<hfmVars, hfa, heap, threads>>

NextBackend == \E phi \in PhiSet(nx, 0, MaxNtF), species \in Species :
                   CallForceDirectSinglePart(phi, species)

SpecBackend == Init /\ [][NextBackend]_vars

NextF ==
    \/ \E kappaTilde \in KappaTildeSet, muTilde \in MuSet, sigmaKappa \in SigmaKappaSet,
          hopping \in ArgSet(HFAHopping), basis \in ArgSet(HFABasis),
          variant \in ArgSet(HFAVariant) :
            makeHubbardFermiAction(kappaTilde, muTilde, sigmaKappa, hopping, basis, variant)
    \/ \E phi \in EvalPhiSet, first \in Species : eval(phi, first)
    \/ \E phi \in ForcePhiSet : force(phi)

SpecF == Init /\ [][NextF]_vars

\* largest number of time slices given to forceDirectSquare on one site
MaxNtSquareOne == 3

\* the configurations forceDirectSquare is called with
SquarePhiSet == IF nx = 1 THEN PhiSet(nx, 1, MaxNtSquareOne) ELSE PhiSet(nx, 1, MaxNtSquare)

\* forceDirectSquare(hfm, phi) on the matrix of either discretisation
CallForceDirectSquare(phi, hopping) ==
    /\ \E f \in {IF hopping = "DIA" THEN forceDirectSquare(phi) ELSE forceDirectSquareExp(phi)} :
          ret' = [op |-> "forceDirectSquare", hopping |-> hopping, phi |-> phi,
                  kind |-> f.kind, value |-> f.value, QInv |-> f.QInv]
    /\ UNCHANGED <<hfmVars, hfa, heap, threads>>

NextSquare == \E phi \in SquarePhiSet, hopping \in HFAHopping : CallForceDirectSquare(phi, hopping)

SpecSquare == Init /\ [][NextSquare]_vars

\* eval and force of the actions of both discretisations
NextShortcut ==
    \/ \E kappaTilde \in KappaTildeSet, muTilde \in MuSet, sigmaKappa \in SigmaKappaSet,
          hopping \in ArgSet(HFAHopping), basis \in ArgSet(HFABasis),
          variant \in ArgSet(HFAVariant) :
            makeHubbardFermiAction(kappaTilde, muTilde, sigmaKappa, hopping, basis, variant)
    \/ \E phi \in EvalPhiSet, first \in Species : eval(phi, first)
    \/ \E phi \in ForcePhiSet : force(phi)
    \/ \E phi \in PhiSet(nx, 1, MaxNtA), first \in Species, thrown \in 0..2 :
          evalExp(phi, first, thrown)
    \/ \E phi \in PhiSet(nx, 1, MaxNtF), thrown \in 0..2 : forceExp(phi, thrown)

SpecShortcut == Init /\ [][NextShortcut]_vars

NextA ==
    \/ \E kappaTilde \in KappaTildeSet, muTilde \in MuSet, sigmaKappa \in SigmaKappaSet,
          hopping \in ArgSet(HFAHopping), basis \in ArgSet(HFABasis),
          variant \in ArgSet(HFAVariant) :
            makeHubbardFermiAction(kappaTilde, muTilde, sigmaKappa, hopping, basis, variant)
    \/ \E phi \in EvalPhiSet, first \in Species : eval(phi, first)

SpecA == Init /\ [][NextA]_vars

\* C6: makeHubbardFermiAction returns the instantiation whose template
\* parameters are the hopping, variant and basis it was given, DIA, ONE and
\* PARTICLE_HOLE standing in for an argument left out, built from the given
\* kappaTilde, muTilde and sigmaKappa.
C6_FactoryInstantiation ==
    ret.op = "makeHubbardFermiAction" =>
        /\ hfa.HOPPING = (IF ret.hopping = "unset" THEN "DIA" ELSE ret.hopping)
        /\ hfa.VARIANT = (IF ret.variant = "unset" THEN "ONE" ELSE ret.variant)
        /\ hfa.BASIS = (IF ret.basis = "unset" THEN "PARTICLE_HOLE" ELSE ret.basis)
        /\ _kappa = ret.kappaTilde
        /\ _mu = ret.muTilde
        /\ _sigmaKappa = ret.sigmaKappa

\* the factory called for EXP, SPIN and TWO on the two-site hopping matrix
C6_Witness ==
    /\ ret.op = "makeHubbardFermiAction"
    /\ ret.hopping = "EXP" /\ ret.basis = "SPIN" /\ ret.variant = "TWO"
    /\ hfa.HOPPING = "EXP" /\ hfa.BASIS = "SPIN" /\ hfa.VARIANT = "TWO"
    /\ nx = 2

\* C9: the value returned by eval has its imaginary part in (-pi, pi]; stated
\* for the values with a finite real part, where the determinant is not 0.
C9_EvalOnFirstBranch ==
    (ret.op = "eval" /\ ret.kind = "ok" /\ ret.value.re[1] # 0 /\ ret.value.re[2] # 0) =>
        InFirstBranch(ret.value.im)

\* ------------------------------------------------------------------------
\* Sums of actions
\* ------------------------------------------------------------------------

\* self + other in Python.  Reading through the null pointer crashes the
\* interpreter or reads a size of whatever is there: 0 returns the sum built
\* so far.
add(self, other) ==
    /\ Len(heap) < MaxObjects
    /\ isAction(heap[self])
    /\ \E r \in {addOn(self, other)} :
        \E kind \in IF r.kind = "ub" THEN {"crash", "undefined"} ELSE {r.kind} :
            /\ Len(r.actions) <= MaxMembers
            /\ heap' = IF kind \in {"ok", "undefined"}
                       THEN Append(heap, [class |-> "SumAction", actions |-> r.actions])
                       ELSE heap
            /\ ret' = [op |-> "__add__", self |-> self, other |-> other, kind |-> kind,
                       value |-> IF kind \in {"ok", "undefined"} THEN Len(heap) + 1 ELSE 0]
    /\ UNCHANGED <<hfmVars, hfa, threads>>

\* SumAction(*args) in Python
SumActionInit(args) ==
    /\ Len(heap) < MaxObjects
    /\ \E r \in {SumActionOf(args)} :
        /\ heap' = IF r.kind = "ok"
                   THEN Append(heap, [class |-> "SumAction", actions |-> r.actions])
                   ELSE heap
        /\ ret' = [op |-> "SumAction", self |-> 0, other |-> 0, kind |-> r.kind,
                   value |-> IF r.kind = "ok" THEN Len(heap) + 1 ELSE 0, args |-> args]
    /\ UNCHANGED <<hfmVars, hfa, threads>>

\* self.add(action) in Python for a SumAction self.  The binding converts
\* action to Action* before its body runs: an object that is no Action raises
\* a TypeError, None becomes a null pointer.  SumAction::add appends.
SumActionAdd(self, action) ==
    /\ heap[self].class = "SumAction"
    /\ Len(heap[self].actions) < MaxMembers
    /\ \E converts \in {isAction(heap[action]) \/ heap[action].class = "NoneType"} :
        /\ heap' = IF converts
                   THEN [heap EXCEPT ![self].actions = Append(@, action)]
                   ELSE heap
        /\ ret' = [op |-> "add", self |-> self, other |-> action,
                   kind |-> IF converts THEN "ok" ELSE "TypeError",
                   value |-> 0]
    /\ UNCHANGED <<hfmVars, hfa, threads>>

NextSum ==
    \/ \E self, other \in 1..Len(heap) : add(self, other)
    \/ \E args \in {<<>>} \cup {<<arg>> : arg \in 1..Len(heap)} : SumActionInit(args)

InitSum == InitFrom({M1(0)}, {CZero}, {1})

SpecSum == InitSum /\ [][NextSum]_vars

\* the operations that add to sums, on objects that are and are not Actions
NextAdd ==
    \/ \E self \in {1}, other \in {1, 4, 5} : add(self, other)
    \/ \E args \in {<<>>, <<1>>, <<4>>, <<5>>} : SumActionInit(args)
    \/ \E self \in 1..Len(heap), action \in {1, 4, 5} : SumActionAdd(self, action)

\* the objects of the driver and, at address 5, Python's None
InitAdd ==
    /\ _kappa = M1(0)
    /\ _mu = CZero
    /\ _sigmaKappa = 1
    /\ _kinvp = EmptyMatrix
    /\ _kinvh = EmptyMatrix
    /\ _logdetKinvp = NaNLog
    /\ _logdetKinvh = NaNLog
    /\ hfa = NoAction
    /\ heap = Append(InitialHeap, [class |-> "NoneType"])
    /\ threads = NoThreads
    /\ ret = [op |-> "HubbardFermiMatrix"]

SpecAdd == InitAdd /\ [][NextAdd]_vars

\* the members x contributes to a sum: its own members if it is a SumAction,
\* else x itself
Members(x) == IF heap[x].class = "SumAction" THEN heap[x].actions ELSE <<x>>
HasSumMember(members) == \E i \in 1..Len(members) : heap[members[i]].class = "SumAction"

\* C7 as amended: x + y is a SumAction that lists the members of x (or x
\* itself) followed by the members of y (or y itself); it flattens one level,
\* so a SumAction is among the members only if it was a member of x or of y.
C7_AddFlattensOneLevel ==
    (ret.op = "__add__" /\ ret.kind = "ok") =>
        /\ heap[ret.value].class = "SumAction"
        /\ heap[ret.value].actions = Members(ret.self) \o Members(ret.other)
        /\ HasSumMember(heap[ret.value].actions) =>
                \/ heap[ret.self].class = "SumAction" /\ HasSumMember(heap[ret.self].actions)
                \/ heap[ret.other].class = "SumAction" /\ HasSumMember(heap[ret.other].actions)

\* a + (b + c) gave the members a, b, c
C7_Witness ==
    /\ ret.op = "__add__"
    /\ ret.self = 1
    /\ heap[ret.other].class = "SumAction"
    /\ heap[ret.other].actions = <<2, 3>>
    /\ heap[ret.value].actions = <<1, 2, 3>>

\* C7 as stated: no member of x + y is a SumAction
C7_NoSumAmongMembers ==
    (ret.op = "__add__" /\ ret.kind = "ok") =>
        /\ heap[ret.value].actions = Members(ret.self) \o Members(ret.other)
        /\ ~HasSumMember(heap[ret.value].actions)

\* ------------------------------------------------------------------------
\* The LU factors of Q
\* ------------------------------------------------------------------------

\* getQLU(hfm, phi).reconstruct().  A read outside a list is undefined: the
\* call crashes or returns whatever the memory held.
getQLUReconstruct(phi) ==
    /\ \E lu \in {getQLU(phi)} :
        IF ~lu.ok
        THEN ret' = [op |-> "getQLU", phi |-> phi, kind |-> "runtime_error"]
        ELSE \E r \in {reconstruct(lu)} :
            \E outcome \in IF r.kind = "ub"
                            THEN {[kind |-> "crash"],
                                  [kind |-> "ok", value |-> Q(phi)],
                                  [kind |-> "ok", value |-> ZeroGrid(getNt(phi), nx)]}
                            ELSE {r} :
                ret' = [op |-> "reconstruct", phi |-> phi, kind |-> outcome.kind,
                        value |-> IF outcome.kind = "ok" THEN outcome.value ELSE EmptyGrid,
                        outOfRange |-> IF r.kind \in {"ub", "ok"}
                                       THEN reconstructOutOfRange(lu) ELSE {}]
    /\ UNCHANGED <<hfmVars, hfa, heap, threads>>

\* right hand sides of solveQ: one spacetime vector of NT slices
QRhsSet(dim, NT) ==
    {[t \in 1..NT |-> Vec(dim, LAMBDA x : CReal(c * t + x))] : c \in 0..1}

\* solveQ(hfm, phi, rhs) = solveQ(getQLU(hfm, phi), rhs)
getQLUSolveQ(phi, rhs) ==
    /\ \E lu \in {getQLU(phi)} :
        IF ~lu.ok
        THEN ret' = [op |-> "getQLU", phi |-> phi, kind |-> "runtime_error"]
        ELSE \E r \in {solveQ(lu, rhs)} :
            ret' = [op |-> "solveQ", phi |-> phi, rhs |-> rhs, kind |-> r.kind,
                    value |-> r.value, dinv |-> lu.dinv, steps |-> solveQSteps(lu),
                    outOfRange |-> solveQOutOfRange(lu)]
    /\ UNCHANGED <<hfmVars, hfa, heap, threads>>

\* getQLU(hfm, phi); a singular block makes invert throw and no QLU is returned
CallGetQLU(phi) ==
    /\ \E lu \in {getQLU(phi)} :
        IF ~lu.ok
        THEN ret' = [op |-> "getQLU", phi |-> phi, kind |-> "runtime_error"]
        ELSE ret' = [op |-> "getQLU", phi |-> phi, kind |-> "ok",
                     lu |-> [dinv |-> lu.dinv, u |-> lu.u, l |-> lu.l, v |-> lu.v, h |-> lu.h],
                     consistent |-> isConsistent(lu)]
    /\ UNCHANGED <<hfmVars, hfa, heap, threads>>

NextGetQLU == \E phi \in QLUPhiSet(nx) : CallGetQLU(phi)

NextQLU == \E phi \in QLUPhiSet(nx) : getQLUReconstruct(phi)

NextSolveQ ==
    \E phi \in QLUPhiSet(nx) : \E rhs \in QRhsSet(nx, getNt(phi)) : getQLUSolveQ(phi, rhs)

InitQLU == InitFrom(QLUKappaSet, MuSet, SigmaKappaSet)

SpecQLU == InitQLU /\ [][NextQLU]_vars

SpecSolveQ == InitQLU /\ [][NextSolveQ]_vars

SpecGetQLU == InitQLU /\ [][NextGetQLU]_vars

\* longest block list of a QLU assembled by hand
MaxBlocks == 3

\* QLU::QLU(nt) reserves room and leaves the five lists empty
NewQLU ==
    /\ ret' = [op |-> "QLU", lu |-> [ok |-> TRUE, dinv |-> <<>>, u |-> <<>>, l |-> <<>>,
                                      v |-> <<>>, h |-> <<>>]]
    /\ UNCHANGED <<hfmVars, hfa, heap, threads>>

\* lu.<list>.emplace_back(block): the lists are public members
PushBlock(list) ==
    /\ "lu" \in DOMAIN ret
    /\ Len(ret.lu[list]) < MaxBlocks
    /\ ret' = [op |-> "QLU", lu |-> [ret.lu EXCEPT ![list] = Append(@, IdMatrix(1))]]
    /\ UNCHANGED <<hfmVars, hfa, heap, threads>>

\* lu.isConsistent()
CallIsConsistent ==
    /\ "lu" \in DOMAIN ret
    /\ ret' = [op |-> "isConsistent", lu |-> ret.lu, value |-> isConsistent(ret.lu)]
    /\ UNCHANGED <<hfmVars, hfa, heap, threads>>

\* lu.reconstruct().  The consistency check is compiled only without NDEBUG;
\* with NDEBUG an inconsistent lu goes on to the reads.  reads are the list
\* elements the call has accessed when it returns or throws.
CallReconstruct ==
    /\ "lu" \in DOMAIN ret
    /\ \E ndebug \in BOOLEAN :
        \E r \in {reconstruct(ret.lu)} :
            \E out \in IF r.kind = "runtime_error" /\ ndebug
                        THEN {IF reconstructOutOfRange(ret.lu) # {} THEN [kind |-> "ub"]
                              ELSE [kind |-> "ok",
                                    value |-> Grid(Len(ret.lu.dinv),
                                                   LAMBDA i, j : reconstructBlock(ret.lu, i, j))]}
                        ELSE {r} :
                ret' = [op |-> "QLU::reconstruct", lu |-> ret.lu, kind |-> out.kind,
                        value |-> IF out.kind = "ok" THEN out.value ELSE EmptyGrid,
                        reads |-> IF out.kind \in {"domain_error", "runtime_error"} THEN {}
                                  ELSE reconstructReads(ret.lu)]
    /\ UNCHANGED <<hfmVars, hfa, heap, threads>>

NextLU ==
    \/ NewQLU
    \/ \E list \in {"dinv", "u", "l", "v", "h"} : PushBlock(list)
    \/ CallIsConsistent
    \/ CallReconstruct

SpecLU == InitQLU /\ [][NextLU]_vars

\* C10: for Nt from 2 to 5, reconstruct on the result of getQLU reads no list
\* outside its range and returns Q.
C10_ReconstructEqualsQ ==
    (ret.op = "reconstruct" /\ getNt(ret.phi) \in 2..5) =>
        /\ ret.outOfRange = {}
        /\ ret.kind = "ok"
        /\ ret.value = Q(ret.phi)

\* C11: for every Nt >= 1 the vector x returned by solveQ on the factors of
\* getQLU satisfies Q(phi) * x = rhs, the cases Nt = 1 and Nt = 2 included.
C11_SolveQSolves ==
    (ret.op = "solveQ") =>
        /\ ret.kind = "ok"
        /\ GridTimes(Q(ret.phi), ret.value) = ret.rhs

\* a system of three time slices whose last-column block v[0] is not zero
\* was solved for a right hand side that is not constant
C11_Witness ==
    /\ ret.op = "solveQ"
    /\ ret.kind = "ok"
    /\ getNt(ret.phi) = 3
    /\ ret.rhs[1] # ret.rhs[2]
    /\ Tplus(0, ret.phi) # ZeroMatrix(nx)

\* C12: M(phi, species) has K(species) on every diagonal block, -F(t) on every
\* block (t, t-1) with 1 <= t < Nt, +F(0) in the corner block (0, Nt-1), and
\* zero elsewhere; for Nt = 1 the block (0, 0) still holds K(species).
C12_BlocksOfM ==
    (ret.op = "M") =>
        \A t, s \in 0..(getNt(ret.phi) - 1) :
            ret.value.b[<<t, s>>] =
                IF s = t THEN K(ret.species)
                ELSE IF s = t - 1 THEN MatNeg(F(t, ret.phi, ret.species, FALSE))
                ELSE IF t = 0 /\ s = getNt(ret.phi) - 1 THEN F(0, ret.phi, ret.species, FALSE)
                ELSE ZeroMatrix(nx)

\* C13: block (t, s) of a freshly built Q(phi) is the sum of P if s = t,
\* Tplus(t) if s = (t-1) mod Nt and Tminus(t) if s = (t+1) mod Nt, and zero
\* if none of the three applies.
C13_BlocksOfQ ==
    (ret.op = "Q") =>
        /\ ret.value.nt = getNt(ret.phi)
        /\ \A t, s \in 0..(getNt(ret.phi) - 1) :
            ret.value.b[<<t, s>>] =
                MatAdd(MatAdd(IF s = t THEN P ELSE ZeroMatrix(nx),
                              IF s = (t - 1) % getNt(ret.phi) THEN Tplus(t, ret.phi)
                              ELSE ZeroMatrix(nx)),
                       IF s = (t + 1) % getNt(ret.phi) THEN Tminus(t, ret.phi)
                       ELSE ZeroMatrix(nx))

\* Q was built for two time slices, where Tplus and Tminus of a row share a
\* block and neither is zero
C13_Witness ==
    /\ ret.op = "Q"
    /\ getNt(ret.phi) = 2
    /\ Tplus(0, ret.phi) # ZeroMatrix(nx)
    /\ Tminus(0, ret.phi) # ZeroMatrix(nx)

\* C14: isConsistent reports a QLU consistent exactly if, with Nt = |dinv|,
\* Nt >= 1, |u| = |l| = Nt-1 and |v| = |h| = max(Nt-2, 0); a QLU with one
\* dinv block and a non-empty v or h is not consistent.
C14_ConsistentIffSizes ==
    (ret.op = "isConsistent") =>
        (ret.value <=>
            /\ Len(ret.lu.dinv) >= 1
            /\ Len(ret.lu.u) = Len(ret.lu.dinv) - 1
            /\ Len(ret.lu.l) = Len(ret.lu.dinv) - 1
            /\ Len(ret.lu.v) = (IF Len(ret.lu.dinv) >= 2 THEN Len(ret.lu.dinv) - 2 ELSE 0)
            /\ Len(ret.lu.h) = (IF Len(ret.lu.dinv) >= 2 THEN Len(ret.lu.dinv) - 2 ELSE 0))

\* C16: reconstruct on a QLU with fewer than two dinv blocks raises a domain
\* error, returns no matrix, and has read no element of the block lists.
C16_ReconstructRefusesShortLU ==
    (ret.op = "QLU::reconstruct" /\ Len(ret.lu.dinv) < 2) =>
        /\ ret.kind = "domain_error"
        /\ ret.value = EmptyGrid
        /\ ret.reads = {}

\* reconstruct was called on a consistent QLU of one time slice
C16_Witness ==
    /\ ret.op = "QLU::reconstruct"
    /\ Len(ret.lu.dinv) = 1
    /\ isConsistent(ret.lu)
    /\ ret.kind = "domain_error"

C15_WitnessRefused ==
    /\ ret.op = "force"
    /\ getNt(ret.phi) = 1
    /\ ret.kind = "invalid_argument"

\* C17: an operation that adds an object that is neither an Action nor a
\* SumAction (self + other, SumAction.add, SumAction(*args)) raises a typed
\* failure, and leaves every SumAction that existed before as it was.
C17_AddingNonActionFails ==
    [][(/\ ret'.op \in {"__add__", "add", "SumAction"}
        /\ \E other \in (IF ret'.op = "SumAction"
                          THEN {ret'.args[i] : i \in 1..Len(ret'.args)}
                          ELSE {ret'.other}) : ~isAction(heap[other]))
       => /\ ret'.kind \in {"cast_error", "TypeError"}
          /\ \A x \in 1..Len(heap) : heap'[x] = heap[x]]_vars

\* C18: the kappa stored in a HubbardFermiMatrix is square, after construction
\* and after every updateKappa and updateMu; a non-square kappa is rejected.
C18_KappaIsSquare ==
    \A i \in 1..Len(_kappa) : Len(_kappa[i]) = Len(_kappa)

\* the caches of every species the action at hand evaluates are filled
CachesWarm ==
    /\ hfa.HOPPING = "DIA"
    /\ \/ hfa.VARIANT = "TWO"
       \/ /\ rows(_kinvp) # 0 /\ ~IsNaN(_logdetKinvp.re)
          /\ \/ hfa.BASIS = "PARTICLE_HOLE" /\ hfa.shortcutForHoles
             \/ rows(_kinvh) # 0 /\ ~IsNaN(_logdetKinvh.re)

\* C19 as amended: once a call of eval has completed on a fermion action the
\* caches of every species the action evaluates are filled, and from then on
\* no call of eval or force, on any phi, writes to the Kinv or logdetKinv
\* caches.
C19_ReadOnlyAfterEval ==
    [][/\ (ret'.op = "eval" /\ ret'.kind = "ok") => CachesWarm'
       /\ (CachesWarm /\ ret'.op \in {"eval", "force"}) => (caches' = caches /\ CachesWarm')]_vars

\* a DIRECT_SINGLE action without the shortcut completed an eval that wrote
\* nothing: an earlier call had filled the caches of both species
C19_Witness ==
    /\ ret.op = "eval"
    /\ ret.kind = "ok"
    /\ ~ret.wrote
    /\ hfa.VARIANT = "ONE"
    /\ ~hfa.shortcutForHoles
    /\ rows(_kinvh) # 0

\* C19 as stated: the call of eval or force that follows a completed call of
\* eval or force writes to no cache.
C19_ReadOnlyAfterEvalOrForce ==
    [][(ret.op \in {"eval", "force"} /\ ret.kind = "ok" /\ ret'.op \in {"eval", "force"})
            => caches' = caches]_vars

\* C20: with cold caches two threads in Kinv can interleave so that one reads
\* the cache as filled while the other has stored K and not yet inverted it.
\* Once the caches of a species are warm, that is they hold the inverse of K
\* and its log-determinant and no thread is on its way to fill them, every
\* step of every thread leaves them as they are and warm, and every call of
\* Kinv or logdetKinv of that species returns the inverse, or its
\* log-determinant.
C20_WarmCallsOnlyRead ==
    [][LET reading(t) ==
               \/ t.pc \in {"idle", "ld_check", "ld_return"}
               \/ t.op = "Kinv" /\ t.pc \in {"kinv_check", "kinv_return"}
           warm(sp, c, thr) ==
               /\ ~IsSingular(K(sp))
               /\ (IF sp = "PARTICLE" THEN c.kinvp ELSE c.kinvh) = Inverse(K(sp))
               /\ (IF sp = "PARTICLE" THEN c.ldp ELSE c.ldh) = logdet(Inverse(K(sp)))
               /\ \A th \in Threads : thr[th].species = sp => reading(thr[th])
           correct(t) ==
               /\ t.kind = "ok"
               /\ t.value = IF t.op = "Kinv" THEN Inverse(K(t.species))
                             ELSE logdet(Inverse(K(t.species)))
       IN  \A sp \in Species :
               warm(sp, caches, threads) =>
                   /\ warm(sp, caches', threads')
                   /\ \A th \in Threads :
                         (threads[th].pc # "idle" /\ threads'[th].pc = "idle"
                             /\ threads'[th].species = sp) => correct(threads'[th])]_vars

\* a thread has returned from Kinv with a matrix that is not the inverse of K,
\* while the other thread has stored K in the cache and not yet inverted it
C20_Witness ==
    \E th, other \in Threads :
        /\ threads[th].pc = "idle"
        /\ threads[th].op = "Kinv"
        /\ threads[th].kind = "ok"
        /\ ~IsSingular(K(threads[th].species))
        /\ threads[th].value # Inverse(K(threads[th].species))
        /\ threads[other].pc = "kinv_invert"
        /\ threads[other].species = threads[th].species

\* C21: forceDirectSinglePart returns the same force, or fails the same way,
\* in a build with USE_CUDA and in a build with the CPU backend, for every
\* hopping matrix, species and number of time slices
C21_BackendsAgree ==
    ret.op = "forceDirectSinglePart" =>
        /\ ret.cuda.kind = ret.cpu.kind
        /\ ret.cuda.value = ret.cpu.value

\* the product kinv*F(t) * ... * kinv*F(NT-1) in ascending order of t
RECURSIVE ProductUp(_, _, _, _)
ProductUp(kinv, t, phi, species) ==
    IF t = getNt(phi) - 1 THEN MatMul(kinv, F(t, phi, species, FALSE))
    ELSE Let(ProductUp(kinv, t + 1, phi, species),
             LAMBDA rest : MatMul(MatMul(kinv, F(t, phi, species, FALSE)), rest))

\* the product kinv*F(t) * ... * kinv*F(0) in descending order of t
RECURSIVE ProductDown(_, _, _, _)
ProductDown(kinv, t, phi, species) ==
    IF t = 0 THEN MatMul(kinv, F(t, phi, species, FALSE))
    ELSE Let(ProductDown(kinv, t - 1, phi, species),
             LAMBDA rest : MatMul(MatMul(kinv, F(t, phi, species, FALSE)), rest))

\* Kinv(species) and logdetKinv(species) as a completed logdetM leaves them
KinvOf(species) == IF species = "PARTICLE" THEN _kinvp ELSE _kinvh
LogdetKinvOf(species) == IF species = "PARTICLE" THEN _logdetKinvp ELSE _logdetKinvh

\* C22 as amended: for mu = 0, logdetM(hfm, phi, species) returns
\* firstLogBranch(-Nt * logdetKinv(species) + logdet(I + A)), where A is the
\* product of Kinv(species) * F(t, phi, species, inv = false) over t = 0 up to
\* Nt-1, in this order.
C22_LogdetMValue ==
    (ret.op = "logdetM" /\ CIsZero(_mu) /\ ret.kind = "ok") =>
        ret.value =
            toFirstLogBranch(
                LogAdd(LogNeg(LogTimes(getNt(ret.phi), LogdetKinvOf(ret.species))),
                       logdet(MatAdd(IdMatrix(nx),
                                     ProductUp(KinvOf(ret.species), 0, ret.phi, ret.species)))))

\* logdetM of three time slices on two sites returned a non-zero value
C22_Witness ==
    /\ ret.op = "logdetM"
    /\ CIsZero(_mu)
    /\ ret.kind = "ok"
    /\ nx = 2
    /\ getNt(ret.phi) = 3
    /\ ret.value # LogZero

\* C22 as stated: for mu = 0, logdetM returns
\* firstLogBranch(-Nt * logdetKinv(species) - logdet(I + A)), where A is the
\* product of Kinv(species) * F(t, phi, species, inv = false) over t = Nt-1
\* down to 0.
C22_LogdetMSubtracts ==
    (ret.op = "logdetM" /\ CIsZero(_mu) /\ ret.kind = "ok") =>
        ret.value =
            toFirstLogBranch(
                LogAdd(LogNeg(LogTimes(getNt(ret.phi), LogdetKinvOf(ret.species))),
                       LogNeg(logdet(MatAdd(IdMatrix(nx),
                                            ProductDown(KinvOf(ret.species), getNt(ret.phi) - 1,
                                                        ret.phi, ret.species))))))

\* the value of C22 as amended with the product taken over t = Nt-1 down to 0
C22_Descending ==
    (ret.op = "logdetM" /\ CIsZero(_mu) /\ ret.kind = "ok") =>
        ret.value =
            toFirstLogBranch(
                LogAdd(LogNeg(LogTimes(getNt(ret.phi), LogdetKinvOf(ret.species))),
                       logdet(MatAdd(IdMatrix(nx),
                                     ProductDown(KinvOf(ret.species), getNt(ret.phi) - 1,
                                                 ret.phi, ret.species)))))

\* C23: logdet(A) of a non-singular square matrix is a logarithm of det(A) on
\* the first branch, exp(logdet(A)) = det(A), whatever rows the factorisation
\* interchanges
C23_ExpLogdetIsDet ==
    ret.op = "logdet" => ret.value = toFirstLogBranch(CLog(Det(ret.mat)))

\* C24: for every Nt >= 1 the QLU returned by getQLU is consistent and holds
\* Nt blocks in dinv, Nt-1 in u and in l, max(Nt-2, 0) in v and in h, each
\* list indexed 0, 1, 2, ... without a gap; the blocks are those of the code
\* path of Nt: for Nt = 1 dinv_0 inverts P + Tplus(0) + Tminus(0), for Nt = 2
\* u_0 = Tplus(0) + Tminus(0), for Nt >= 3 u_0 = Tminus(0) and v_0 = Tplus(0).
C24_GetQLUShape ==
    (ret.op = "getQLU" /\ ret.kind = "ok") =>
        LET nt == getNt(ret.phi)
            lu == ret.lu
        IN  /\ nt >= 1
            /\ ret.consistent
            /\ DOMAIN lu.dinv = 1..nt
            /\ DOMAIN lu.u = 1..(nt - 1)
            /\ DOMAIN lu.l = 1..(nt - 1)
            /\ DOMAIN lu.v = 1..(IF nt > 2 THEN nt - 2 ELSE 0)
            /\ DOMAIN lu.h = 1..(IF nt > 2 THEN nt - 2 ELSE 0)
            /\ nt = 1 => MatMul(lu.dinv[1], MatAdd(MatAdd(P, Tplus(0, ret.phi)),
                                                   Tminus(0, ret.phi))) = IdMatrix(nx)
            /\ nt = 2 => lu.u[1] = MatAdd(Tplus(0, ret.phi), Tminus(0, ret.phi))
            /\ nt >= 3 => (lu.u[1] = Tminus(0, ret.phi) /\ lu.v[1] = Tplus(0, ret.phi))

\* getQLU returned the factors of four time slices on two sites
C24_Witness ==
    /\ ret.op = "getQLU"
    /\ ret.kind = "ok"
    /\ nx = 2
    /\ getNt(ret.phi) = 4
    /\ Len(ret.lu.v) = 2

\* getQLU returned the factors of two time slices, without corner blocks
C24_WitnessTwo ==
    /\ ret.op = "getQLU"
    /\ ret.kind = "ok"
    /\ getNt(ret.phi) = 2
    /\ ret.lu.v = <<>>

\* C25: solveQ on the factors of getQLU, for every Nt >= 1, assigns every time
\* slice of y and of x exactly once and reads no list outside its range; the
\* backward loop runs for i = Nt-3 down to 0, once each, which is no pass at
\* all for Nt = 1 and Nt = 2; for Nt = 1 the result is x_0 = dinv_0 * rhs_0.
C25_SolveQSteps ==
    (ret.op = "solveQ" /\ ret.kind = "ok") =>
        LET nt == getNt(ret.phi)
            st == ret.steps
            once(w) == Len(w) = nt /\ \A t \in 0..(nt - 1) : Cardinality({k \in 1..nt : w[k] = t}) = 1
        IN  /\ nt >= 1
            /\ once(st.y)
            /\ once(st.x)
            /\ st.back = [k \in 1..(IF nt > 2 THEN nt - 2 ELSE 0) |-> nt - 2 - k]
            /\ ret.outOfRange = {}
            /\ {r \in st.reads : r[1] = "dinv"} = {<<"dinv", t>> : t \in 0..(nt - 1)}
            /\ nt = 1 => (st.x = <<0>> /\ ret.value = <<MatVec(ret.dinv[1], ret.rhs[1])>>)

\* solveQ on four time slices ran its backward loop for i = 1 and i = 0
C25_Witness ==
    /\ ret.op = "solveQ"
    /\ ret.kind = "ok"
    /\ getNt(ret.phi) = 4
    /\ ret.steps.back = <<1, 0>>

\* solveQ on two time slices ran its backward loop not at all
C25_WitnessTwo ==
    /\ ret.op = "solveQ"
    /\ ret.kind = "ok"
    /\ getNt(ret.phi) = 2
    /\ ret.steps.back = <<>>
    /\ ret.steps.x = <<1, 0>>

\* solveQ on one time slice
C25_WitnessOne ==
    /\ ret.op = "solveQ"
    /\ ret.kind = "ok"
    /\ getNt(ret.phi) = 1
    /\ ret.steps.x = <<0>>

\* C26: Tplus(t, phi) is sigmaKappa*kappa - (1-mu) with row x' times
\* s*exp(i*phi[x', (t-1) mod Nt]), s = -1 iff t = 0; Tminus(t, phi) is
\* kappa - (1+mu) with column x times s*exp(-i*phi[x, t]), s = -1 iff
\* t = Nt-1; so one Tplus and one Tminus block per configuration carry the
\* anti-periodic sign, and for Nt = 1 both blocks of t = 0 do.
C26_AntiPeriodicSign ==
    ret.op = "Tplus/Tminus" =>
        LET NT == getNt(ret.phi)
            sp == IF ret.tp = 0 THEN -1 ELSE 1
            sm == IF ret.tp = NT - 1 THEN -1 ELSE 1
            before == ((ret.tp + NT - 1) % NT) + 1
            kp == MatSub(MatScale(CReal(_sigmaKappa), _kappa),
                         MatScale(CSub(COne, _mu), IdMatrix(nx)))
            km == MatSub(_kappa, MatScale(CAdd(COne, _mu), IdMatrix(nx)))
        IN  \A xp \in 1..nx, x \in 1..nx :
                /\ ret.Tplus[xp][x] =
                       CMul(CReal(sp), CMul(kp[xp][x], ExpI(1, ret.phi[before][xp])))
                /\ ret.Tminus[xp][x] =
                       CMul(CReal(sm), CMul(km[xp][x], ExpI(-1, ret.phi[ret.tp + 1][x])))

\* the blocks of t = 0 of three time slices whose fields differ: Tplus with
\* the sign, Tminus without
C26_Witness ==
    /\ ret.op = "Tplus/Tminus"
    /\ getNt(ret.phi) = 3
    /\ ret.tp = 0
    /\ ret.phi[3] # ret.phi[1]
    /\ ret.Tplus # ZeroMatrix(nx)
    /\ ret.Tplus # MatNeg(ret.Tplus)
    /\ nx = 2

\* the blocks of the only time slice of a configuration
C26_WitnessOne ==
    /\ ret.op = "Tplus/Tminus"
    /\ getNt(ret.phi) = 1
    /\ ret.Tplus # ZeroMatrix(nx)
    /\ ret.Tminus # ZeroMatrix(nx)

\* C27: eval and force of a (DIA or EXP, DIRECT_SINGLE, PARTICLE_HOLE) action
\* with shortcutForHoles make one call, logdetM or forceDirectSinglePart of
\* Species::PARTICLE (the force with kp), leave the caches of the holes empty,
\* and for DIA return -firstLogBranch(ldp + conj(ldp)) and -i*(fp - conj(fp));
\* without shortcutForHoles a completed eval or force has called both
\* species, the particle force with kp and the hole force with kh.
C27_ShortcutSkipsHoles ==
    [][(/\ ret'.op \in {"eval", "force"}
        /\ hfa.VARIANT = "ONE"
        /\ hfa.BASIS = "PARTICLE_HOLE") =>
           LET species == {ret'.calls[k].species : k \in 1..Len(ret'.calls)}
               fp == forceDirectSinglePart(ret'.phi, K("PARTICLE"), "PARTICLE")
               ldp == logdetMOn(caches, ret'.phi, "PARTICLE")
               conj(z) == <<z[1], -z[2], z[3]>>
           IN  IF hfa.shortcutForHoles
               THEN /\ Len(ret'.calls) = 1
                    /\ species = {"PARTICLE"}
                    /\ ret'.op = "force" => ret'.calls[1].k = "_kp"
                    /\ rows(_kinvh) = 0 /\ IsNaN(_logdetKinvh.re)
                    /\ rows(_kinvh') = 0 /\ IsNaN(_logdetKinvh'.re)
                    /\ (hfa.HOPPING = "DIA" /\ ret'.op = "eval" /\ ret'.kind = "ok") =>
                           ret'.value = LogNeg(toFirstLogBranch(
                                            LogAdd(ldp.value, LogConj(ldp.value))))
                    /\ (hfa.HOPPING = "DIA" /\ ret'.op = "force" /\ ret'.kind = "ok") =>
                           \A t \in 1..Len(fp.value), x \in 1..nx :
                               ret'.value[t][x] =
                                   CMul(CNeg(CI), CSub(fp.value[t][x], conj(fp.value[t][x])))
               ELSE ret'.kind \in {"ok", "returned"} =>
                       /\ Len(ret'.calls) = 2
                       /\ species = {"PARTICLE", "HOLE"}
                       /\ ret'.op = "force" =>
                              \A k \in 1..2 :
                                  ret'.calls[k].k = IF ret'.calls[k].species = "HOLE"
                                                    THEN "_kh" ELSE "_kp"]_vars

\* an eval of a DIA action with the shortcut filled the caches of the
\* particles and left those of the holes empty
C27_Witness ==
    /\ ret.op = "eval"
    /\ ret.kind = "ok"
    /\ hfa.HOPPING = "DIA"
    /\ hfa.VARIANT = "ONE"
    /\ hfa.BASIS = "PARTICLE_HOLE"
    /\ hfa.shortcutForHoles
    /\ rows(_kinvp) # 0
    /\ rows(_kinvh) = 0
    /\ ret.calls = <<[fn |-> "logdetM", species |-> "PARTICLE"]>>

\* a force of an EXP action with the shortcut called forceDirectSinglePart once
C27_WitnessExpForce ==
    /\ ret.op = "force"
    /\ ret.kind = "returned"
    /\ hfa.HOPPING = "EXP"
    /\ hfa.VARIANT = "ONE"
    /\ hfa.BASIS = "PARTICLE_HOLE"
    /\ hfa.shortcutForHoles
    /\ Len(ret.calls) = 1

\* a force of a DIA action without the shortcut called both species
C27_WitnessBoth ==
    /\ ret.op = "force"
    /\ ret.kind = "ok"
    /\ hfa.HOPPING = "DIA"
    /\ hfa.VARIANT = "ONE"
    /\ hfa.BASIS = "PARTICLE_HOLE"
    /\ ~hfa.shortcutForHoles
    /\ Len(ret.calls) = 2
    /\ ret.value # [t \in 1..Len(ret.value) |-> [x \in 1..nx |-> CZero]]

\* the product of two spacetime matrices kept by their blocks
GridMul(a, b) ==
    LET RECURSIVE sum(_, _, _)
        sum(i, j, k) ==
            IF k >= a.nt THEN ZeroMatrix(nx)
            ELSE MatAdd(MatMul(a.b[<<i, k>>], b.b[<<k, j>>]), sum(i, j, k + 1))
    IN  [ij \in (0..a.nt-1) \X (0..a.nt-1) |-> sum(ij[1], ij[2], 0)]

\* C28: forceDirectSquare inverts Q and, for every Nt >= 1 and every tau in
\* 0..Nt-1 with tau' = (tau+1) mod Nt, sets force[., tau] to
\* i*diag(Tplus(tau') * Qinv[tau, tau']) - i*diag(Qinv[tau', tau] * Tminus(tau))
\* for DIA and to
\* i*diag(Qinv[tau, tau'] * Tplus(tau')) - i*diag(Tminus(tau) * Qinv[tau', tau])
\* for EXP.
C28_ForceDirectSquare ==
    (ret.op = "forceDirectSquare" /\ ret.kind = "ok") =>
        LET nt == getNt(ret.phi)
            Qi(t1, t2) == ret.QInv.b[<<t1, t2>>]
            next(tau) == (tau + 1) % nt
            diag(A, x) == A[x][x]
        IN  /\ nt >= 1
            /\ GridMul(Q(ret.phi), ret.QInv) =
                   [ij \in (0..nt-1) \X (0..nt-1) |->
                       IF ij[1] = ij[2] THEN IdMatrix(nx) ELSE ZeroMatrix(nx)]
            /\ Len(ret.value) = nt
            /\ \A tau \in 0..(nt - 1), x \in 1..nx :
                   ret.value[tau + 1][x] =
                       IF ret.hopping = "DIA"
                       THEN CSub(CMul(CI, diag(MatMul(Tplus(next(tau), ret.phi),
                                                      Qi(tau, next(tau))), x)),
                                 CMul(CI, diag(MatMul(Qi(next(tau), tau),
                                                      Tminus(tau, ret.phi)), x)))
                       ELSE CSub(CMul(CI, diag(MatMul(Qi(tau, next(tau)),
                                                      Tplus(next(tau), ret.phi)), x)),
                                 CMul(CI, diag(MatMul(Tminus(tau, ret.phi),
                                                      Qi(next(tau), tau)), x)))

\* the force of three time slices for DIA
C28_Witness ==
    /\ ret.op = "forceDirectSquare"
    /\ ret.kind = "ok"
    /\ ret.hopping = "DIA"
    /\ getNt(ret.phi) = 3
    /\ ret.phi[3] # ret.phi[1]
    /\ ret.QInv.b[<<2, 0>>] # ret.QInv.b[<<0, 1>>]
    /\ ret.value[3] # <<CZero>>

\* a force on two sites that differs between the two orders of the factors
C28_WitnessOrder ==
    /\ ret.op = "forceDirectSquare"
    /\ ret.kind = "ok"
    /\ ret.hopping = "EXP"
    /\ nx = 2
    /\ ret.value # forceDirectSquare(ret.phi).value


\* C29: in forceDirectSinglePart of the CPU backend lefts holds exactly Nt-1
\* matrices, lefts[0] = F(Nt-1)*K and lefts[i] = F(Nt-1-i)*K*lefts[i-1]; the
\* slice Nt-1 of the force is written from diag(Ainv*R) with R the inverse of
\* 1 + Ainv, every slice tau in 0..Nt-2 is written exactly once from
\* diag(lefts[Nt-2-tau]*R) after R was multiplied on the right by F(tau)*K, the
\* index Nt-2-tau is within the list, and all Nt slices are written
C29_LeftsAndWrites ==
    (ret.op = "forceDirectSinglePart" /\ ret.cpu.kind = "ok") =>
        LET r == ret.cpu
            nt == getNt(ret.phi)
            diagonal(A) == Vec(Dim(A), LAMBDA i : A[i][i])
            fk(t) == MatMul(F(t, ret.phi, ret.species, TRUE), ret.k)
        IN  /\ Len(r.lefts) = nt - 1
            /\ At(r.lefts, 0) = fk(nt - 1)
            /\ \A i \in 1..(nt - 2) :
                   At(r.lefts, i) = MatMul(fk(nt - 1 - i), At(r.lefts, i - 1))
            /\ r.Ainv = MatMul(fk(0), At(r.lefts, nt - 2))
            /\ Len(r.writes) = nt
            /\ r.writes[1].tau = nt - 1
            /\ MatMul(MatAdd(IdMatrix(nx), r.Ainv), r.writes[1].right) = IdMatrix(nx)
            /\ r.writes[1].row = diagonal(MatMul(r.Ainv, r.writes[1].right))
            /\ \A tau \in 0..(nt - 2) :
                   LET w == r.writes[tau + 2]
                   IN  /\ w.tau = tau
                       /\ w.index = nt - 2 - tau
                       /\ w.index \in 0..(Len(r.lefts) - 1)
                       /\ w.right = MatMul(r.writes[tau + 1].right, fk(tau))
                       /\ w.row = diagonal(MatMul(At(r.lefts, w.index), w.right))
            /\ \A tau \in 0..(nt - 1) :
                   /\ Cardinality({j \in 1..Len(r.writes) : r.writes[j].tau = tau}) = 1
                   /\ \E j \in 1..Len(r.writes) :
                          r.writes[j].tau = tau /\ r.value[tau + 1] = r.writes[j].row

\* a call on three time slices whose partial products and slices differ
C29_Witness ==
    /\ ret.op = "forceDirectSinglePart"
    /\ ret.cpu.kind = "ok"
    /\ getNt(ret.phi) = 3
    /\ Len(ret.cpu.lefts) = 2
    /\ ret.cpu.lefts[1] # ret.cpu.lefts[2]
    /\ ret.cpu.writes[2].index = 1
    /\ ret.cpu.writes[3].index = 0
    /\ ret.cpu.value[1] # ret.cpu.value[3]
    /\ nx = 2
    /\ ret.cpu.lefts[2] # MatMul(ret.cpu.lefts[1],
                                 MatMul(F(1, ret.phi, ret.species, TRUE), ret.k))

\* a call on two time slices: the list holds one matrix
C29_WitnessTwo ==
    /\ ret.op = "forceDirectSinglePart"
    /\ ret.cpu.kind = "ok"
    /\ getNt(ret.phi) = 2
    /\ Len(ret.cpu.lefts) = 1
    /\ ret.cpu.writes[2].index = 0


\* C30: the matrix Q(q, phi) leaves in q depends only on kappa, mu, sigmaKappa
\* and phi, not on what q held before the call: it is the matrix Q(phi) builds
\* in a fresh q
C30_QIntoIgnoresOldContents ==
    ret.op = "Q(q, phi)" => ret.q = Q(ret.phi)

\* a second call on a q of the right size keeps the diagonal blocks of Q(phi)
\* and adds T^+ and T^- to what the off-diagonal blocks held
C30_QIntoAccumulates ==
    (ret.op = "Q(q, phi)" /\ ret.before.nt = getNt(ret.phi) /\ getNt(ret.phi) >= 2) =>
        \A t, s \in 0..(getNt(ret.phi) - 1) :
            ret.q.b[<<t, s>>] =
                IF s = t THEN Q(ret.phi).b[<<t, s>>]
                ELSE MatAdd(ret.before.b[<<t, s>>], Q(ret.phi).b[<<t, s>>])

\* a second call with a configuration of the same size as the first
C30_WitnessSameSize ==
    /\ ret.op = "Q(q, phi)"
    /\ ret.calls = 2
    /\ ret.before.nt = getNt(ret.phi)
    /\ getNt(ret.phi) = 3
    /\ ret.q # Q(ret.phi)

\* a second call with a configuration of another size: q is reset
C30_WitnessResized ==
    /\ ret.op = "Q(q, phi)"
    /\ ret.calls = 2
    /\ ret.before.nt # getNt(ret.phi)
    /\ ret.q = Q(ret.phi)

=============================================================================
